---- MODULE Spec2Model ----
(***************************************************************************)
(* Cost-estimator persistence gateway (desktop_app/database.py over the    *)
(* calculator models).  The database is three tables keyed by primary key; *)
(* every ORM statement commits on its own (autocommit), and a foreign key  *)
(* to an absent row makes the INSERT fail with IntegrityError.             *)
(*                                                                         *)
(* Spec     : gateway calls one after the other, each call one step.       *)
(* SpecConc : two processes on one database, each running update_project   *)
(*            statement by statement.                                      *)
(* SpecCanvas, SpecDrag, SpecProject : the calculator tab and its canvas.  *)
(* SpecWorker, SpecWorkerFair : the test-generation tab and its worker.    *)
(* SpecRest   : the test-generation REST API used by one user.             *)
(* SpecTenant : the same API used by two users.                            *)
(* SpecCicd   : pipelines generated and read back.                         *)
(* SpecApi    : the calculator REST API.                                   *)
(***************************************************************************)
EXTENDS Integers, Sequences, FiniteSets, TLC

\* ------------------------------------------------------------------ bounds
MaxRows == 4            \* rows ever inserted after start-up, over the three tables
MaxBlocks == 2          \* longest blocks_data list passed to the gateway
MaxTests == 3           \* GeneratedTest rows ever created
MaxTenantTests == 2     \* GeneratedTest rows ever created while two users share the API
MaxItems == 2           \* BlockItem objects alive at a time
MaxCoord == 100         \* a block is dragged within 0 .. MaxCoord on both axes

\* ------------------------------------------------------------------ values
\* Python's Optional: None is the empty sequence, a given value v is <<v>>.
None == << >>
Some(v) == << v >>
IsNone(o) == Len(o) = 0
Val(o) == o[1]
Opt(S) == {None} \cup { Some(v) : v \in S }

\* dict.get(key, default) on a dict modelled as a function on its keys.
Get(d, k, default) == IF k \in DOMAIN d THEN d[k] ELSE default

\* database.py init_database: the catalog created on an empty database.
default_blocks ==
    << [name |-> "Standard Room", price_per_sqft |-> 50],
       [name |-> "Premium Room",  price_per_sqft |-> 75],
       [name |-> "Bathroom",      price_per_sqft |-> 100],
       [name |-> "Kitchen",       price_per_sqft |-> 120],
       [name |-> "Garage",        price_per_sqft |-> 35] >>

\* ------------------------------------------------------------------ inputs
NameInputs == {"", "Room A"}
RenameInputs == {"Room A"}
TypeNameInputs == {"Den"}
PriceInputs == {0, 60}
RepriceInputs == {0}
FirstNewType == Len(default_blocks) + 1
TypeIdInputs == {1, FirstNewType}
ProjectIdInputs == {1, 2}
AbsentType == FirstNewType + MaxRows    \* a block type id that is never allocated

\* the calculator tab: block types picked from the list, spin-box values
\* typed in, points clicked on the canvas
BlockChoices == {1}
LengthInputs == {120}
WidthInputs == {96}
CustomPriceInputs == {0}

\* the test generator tab: URL typed in (scheme, rest), the two combo boxes
UrlInputs == { << >>, << "ftp://", "a" >>, << "http://", "a" >>, << "https://", "b" >> }
FrameworkInputs == {"playwright", "selenium"}
LanguageInputs == {"python", "javascript", "java"}

\* the test-generation REST API: users, test projects, request bodies
Users == {"alice", "bob"}
Owner == "alice"                \* the user whose requests SpecRest follows
TestProjectIds == {1, 2}
PatchedIds == {1}
SharedProjectIds == {1, 3}      \* a project of each user, requested by both
ProviderIds == {1, 2}
CicdProviders == {"github_actions", "gitlab_ci", "jenkins"}
ScenarioInputs == {"login", "checkout"}
PointInputs == { << 0, 0 >>, << 75, 75 >>, << 170, 60 >>, << 60, 146 >> }
MovePoints == { << 100, 90 >> }         \* where the pointer is dragged to

\* blocks_data entries: as BlockItem.to_dict builds them (all five keys), and
\* as a direct caller of the gateway may pass them (keys left out,
\* non-positive dimensions, a block type that does not exist).
BlockPool ==
    { [block_type_id |-> 1, length |-> 120, width |-> 96, x |-> 0, y |-> 0],
      [block_type_id |-> 2, length |-> 0, width |-> -12],
      [block_type_id |-> AbsentType, x |-> 50, y |-> 70] }

RECURSIVE SeqsUpTo(_, _)
SeqsUpTo(S, n) ==
    IF n = 0 THEN { << >> }
    ELSE LET shorter == SeqsUpTo(S, n - 1)
         IN shorter \cup { Append(s, e) : s \in { t \in shorter : Len(t) = n - 1 }, e \in S }

BlockLists == SeqsUpTo(BlockPool, MaxBlocks)

\* request bodies of generate_tests: scenario lists, and bodies the
\* serializer rejects (no list, a timeout below 1000, a blank scenario)
DataInputs ==
    { [test_scenarios |-> s] : s \in SeqsUpTo(ScenarioInputs, MaxTests) }
       \cup { [timeout |-> 30000],
              [test_scenarios |-> << "login" >>, timeout |-> 500],
              [test_scenarios |-> << "" >>] }

\* (name, price_per_sqft) arguments of update_block_type: a rename, a reprice
TypeEdits == { << Some(n), None >> : n \in TypeNameInputs }
                 \cup { << None, Some(p) >> : p \in RepriceInputs }

\* (name, blocks_data) arguments of update_project: a rename alone, a block
\* list alone, and both as CalculatorTab.save_project passes them
ProjectEdits == { << Some(n), None >> : n \in RenameInputs }
                    \cup { << None, Some(b) >> : b \in SeqsUpTo(BlockPool, 1) }
                    \cup { << Some(n), Some(b) >> : n \in RenameInputs, b \in BlockLists }

\* ------------------------------------------------------------------ state
VARIABLES
    blockTypes,     \* table calculator_blocktype: id -> [name, price_per_sqft]
    projects,       \* table calculator_project: id -> [name]
    instances,      \* table calculator_blockinstance: id -> [project, block_type, length, width, x, y]
    nextType,       \* next primary key of each table
    nextProject,
    nextInstance,
    last,           \* the gateway call that ended last: operation, target id, outcome
    clients,        \* update_project calls in flight, one per process sharing the database
    items,          \* the BlockItem objects created so far: object id -> attributes
    tab,            \* CalculatorTab: blocks, the two spin boxes, the cost summary labels, current_project_id
    canvas,         \* CanvasWidget: blocks, selected_block, is_dragging, the drag offsets
    ui,             \* the calculator-tab event handled last, with what select_block_at returned
    desk,           \* TestGenTab widgets: generate button, progress bar, output, last message box
    worker,         \* the TestGenerationWorker started last: its statement and attributes
    signals,        \* signals the worker emitted whose slot has not run yet
    emitted,        \* every signal the worker started last has emitted
    llmProviders,   \* table testgen_llmprovider: id -> [provider_type, api_endpoint, api_key, created_by]
    testProjects,   \* table testgen_testproject: id -> [llm_provider, created_by, framework, language]
    pipelines,      \* table testgen_cicdpipeline: id -> [test_project, provider, config_content, ...]
    generatedTests, \* table testgen_generatedtest: id -> [test_project, test_description, ...]
    nextTest,       \* next primary key of testgen_generatedtest
    request,        \* the REST request served last: user, action, pk, body
    response,       \* the response returned to it: status, body
    calls           \* the calls of the LLM provider made while serving it

dbVars == << blockTypes, projects, instances, nextType, nextProject, nextInstance >>
guiVars == << items, tab, canvas, ui >>
deskVars == << desk, worker, signals, emitted >>
restVars == << llmProviders, testProjects, pipelines, generatedTests, nextTest,
              request, response, calls >>
vars == << dbVars, last, clients, guiVars, deskVars, restVars >>

\* the processes of the interleaved specification
Clients == {"c1", "c2"}
Idle == [pc |-> "idle"]

\* rows inserted since start-up
Used == (nextType - FirstNewType) + (nextProject - 1) + (nextInstance - 1)

\* a whole number as a Python float, kept exact as a fraction n/d
Num(i) == [n |-> i, d |-> 1]

\* what a handled calculator-tab event leaves in `ui`
Event(op, x, y, ret) == [op |-> op, x |-> x, y |-> y, ret |-> ret]

\* CalculatorTab.__init__ / CanvasWidget.__init__ and the labels of init_ui
InitCanvas ==
    /\ items = << >>
    /\ tab = [ blocks |-> << >>, length_spin |-> 100, width_spin |-> 100,
               summary |-> [count |-> 0, area |-> Num(0), cost |-> Num(0)],
               current_project_id |-> None ]
    /\ canvas = [ blocks |-> << >>, selected_block |-> None, is_dragging |-> FALSE,
                  drag_offset_x |-> 0, drag_offset_y |-> 0 ]
    /\ ui = Event("init_ui", 0, 0, None)

\* TestGenTab.init_ui: no worker yet, the button enabled, the bar hidden
InitDesk ==
    /\ desk = [ generate_btn |-> TRUE, progress_bar |-> FALSE, format |-> "",
                test_output |-> "", save_test_btn |-> FALSE, message |-> "" ]
    /\ worker = [ pc |-> "none" ]
    /\ signals = << >>
    /\ emitted = << >>

\* the test-generation tables before the first request: each user has
\* created an LLM provider (an OpenAI one, a Google one) and test projects:
\* the first user one with her provider and one without a provider, the second
\* user one with his; no generated test, no pipeline
InitRest ==
    /\ llmProviders =
          << [ provider_type |-> "openai", api_endpoint |-> "https://api.openai.com/v1",
               api_key |-> "sk-alice", created_by |-> "alice" ],
             [ provider_type |-> "google", api_endpoint |-> "https://g.example/v1beta/generate",
               api_key |-> "AIza-bob", created_by |-> "bob" ] >>
    /\ testProjects =
          << [ llm_provider |-> Some(1), created_by |-> "alice",
               framework |-> "playwright", language |-> "python" ],
             [ llm_provider |-> None, created_by |-> "alice",
               framework |-> "selenium", language |-> "java" ],
             [ llm_provider |-> Some(2), created_by |-> "bob",
               framework |-> "selenium", language |-> "csharp" ] >>
    /\ pipelines = << >>
    /\ generatedTests = << >>
    /\ nextTest = 1
    /\ request = [user |-> "none", op |-> "none", pk |-> 0, data |-> << >>]
    /\ response = [op |-> "none", pk |-> 0, status |-> 0, body |-> << >>]
    /\ calls = << >>

\* ------------------------------------------------------------------ ORM
Without(table, ids) == [i \in DOMAIN table \ ids |-> table[i]]

\* related manager project.blocks: the instance rows of one project
BlocksOf(inst, project_id) == { i \in DOMAIN inst : inst[i].project = project_id }

\* instance rows referencing one block type
UsesOf(inst, block_type_id) == { i \in DOMAIN inst : inst[i].block_type = block_type_id }

\* InstanceRow with the two dimensions stored under each other's column.
InstanceRow_Swapped(project_id, block_data) ==
    [ project    |-> project_id,
      block_type |-> block_data["block_type_id"],
      length     |-> Get(block_data, "width", 10),
      width      |-> Get(block_data, "length", 10),
      x          |-> Get(block_data, "x", 0),
      y          |-> Get(block_data, "y", 0) ]

\* BlockInstance.objects.create(project=..., block_type_id=..., length=..., ...):
\* the row built from one blocks_data entry.
InstanceRow(project_id, block_data) ==
    [ project    |-> project_id,
      block_type |-> block_data["block_type_id"],
      length     |-> Get(block_data, "length", 10),
      width      |-> Get(block_data, "width", 10),
      x          |-> Get(block_data, "x", 0),
      y          |-> Get(block_data, "y", 0) ]

\* ForeignKeysHold with block_type left unconstrained (db_constraint=False).
ForeignKeysHold_ProjectOnly(row, types, projs) == row.project \in DOMAIN projs

\* The foreign keys of BlockInstance, checked by the database when the
\* INSERT commits.
ForeignKeysHold(row, types, projs) ==
    /\ row.project \in DOMAIN projs
    /\ row.block_type \in DOMAIN types

\* The for-loop of create_project / update_project: one INSERT per entry, each
\* committed on its own; the first failing INSERT raises and ends the loop,
\* leaving the rows inserted before it.
RECURSIVE InsertBlocks(_, _, _, _, _, _)
InsertBlocks(inst, next, project_id, blocks_data, types, projs) ==
    IF Len(blocks_data) = 0 THEN [instances |-> inst, next |-> next, result |-> "ok"]
    ELSE LET row == InstanceRow(project_id, Head(blocks_data))
         IN IF ForeignKeysHold(row, types, projs)
            THEN InsertBlocks(inst @@ (next :> row), next + 1, project_id,
                              Tail(blocks_data), types, projs)
            ELSE [instances |-> inst, next |-> next, result |-> "IntegrityError"]

\* ------------------------------------------------------------------ gateway
\* What a finished call leaves in `last`: removed and added count the
\* BlockInstance rows the call deleted and inserted.
Call(op, id, result, ret, removed, added) ==
    [op |-> op, id |-> id, result |-> result, ret |-> ret,
     removed |-> removed, added |-> added]

\* NotFound with the exception swallowed: the call reports success
NotFound_Silent(op, id) == Call(op, id, "ok", 0, 0, 0)

\* Model.objects.get(id=...) found no row: DoesNotExist is raised before any
\* statement that writes, and leaves the call
NotFound(op, id) == Call(op, id, "DoesNotExist", 0, 0, 0)

RECURSIVE SortedIds(_)
SortedIds(S) ==
    IF S = {} THEN << >>
    ELSE LET m == CHOOSE i \in S : \A j \in S : i <= j
         IN << m >> \o SortedIds(S \ {m})

\* get_project: the project row with its blocks prefetched (in primary-key
\* order), each block with its block type resolved.
get_project(types, projs, inst, project_id) ==
    [ id     |-> project_id,
      name   |-> projs[project_id].name,
      blocks |-> [ k \in 1 .. Cardinality(BlocksOf(inst, project_id)) |->
                     LET i == SortedIds(BlocksOf(inst, project_id))[k]
                     IN [ id |-> i,
                          block_type_id |-> inst[i].block_type,
                          price_per_sqft |-> types[inst[i].block_type].price_per_sqft,
                          length |-> inst[i].length, width |-> inst[i].width,
                          x |-> inst[i].x, y |-> inst[i].y ] ] ]

\* CascadeBlockType with on_delete=DO_NOTHING: the dependent rows stay.
CascadeBlockType_Nothing(inst, block_type_id) == inst

\* Model.delete() of a BlockType: the collector removes the dependent
\* BlockInstance rows and the row itself in one transaction.
CascadeBlockType(inst, block_type_id) == Without(inst, UsesOf(inst, block_type_id))

\* CascadeProject with the filter on the project lost: every row goes.
CascadeProject_All(inst, project_id) == Without(inst, DOMAIN inst)

\* Model.delete() of a Project: on_delete=CASCADE on BlockInstance.project.
CascadeProject(inst, project_id) == Without(inst, BlocksOf(inst, project_id))

\* DeleteBlocks left out: the new rows are added to the old ones.
DeleteBlocks_Additive(inst, project_id) == inst

\* project.blocks.all().delete() in update_project.
DeleteBlocks(inst, project_id) == Without(inst, BlocksOf(inst, project_id))

\* Project.objects.create(name=name, created_by=user): create() runs no
\* validation, so any name is stored.
ProjectRow(name) == [name |-> name]

\* BlockType.objects.create(name=name, price_per_sqft=price_per_sqft)
TypeRow(name, price_per_sqft) == [name |-> name, price_per_sqft |-> price_per_sqft]

create_block_type(name, price_per_sqft) ==
    /\ Used < MaxRows
    /\ blockTypes' = blockTypes @@ (nextType :> TypeRow(name, price_per_sqft))
    /\ nextType' = nextType + 1
    /\ last' = Call("create_block_type", 0, "ok", nextType, 0, 0)
    /\ UNCHANGED << projects, instances, nextProject, nextInstance >>

update_block_type(block_type_id, name, price_per_sqft) ==
    /\ IF block_type_id \notin DOMAIN blockTypes
       THEN /\ last' = NotFound("update_block_type", block_type_id)
            /\ UNCHANGED blockTypes
       ELSE /\ blockTypes' =
                  [blockTypes EXCEPT ![block_type_id] =
                     TypeRow(IF IsNone(name) THEN @.name ELSE Val(name),
                             IF IsNone(price_per_sqft) THEN @.price_per_sqft
                             ELSE Val(price_per_sqft))]
            /\ last' = Call("update_block_type", block_type_id, "ok", block_type_id, 0, 0)
    /\ UNCHANGED << projects, instances, nextType, nextProject, nextInstance >>

delete_block_type(block_type_id) ==
    /\ IF block_type_id \notin DOMAIN blockTypes
       THEN /\ last' = NotFound("delete_block_type", block_type_id)
            /\ UNCHANGED << blockTypes, instances >>
       ELSE /\ instances' = CascadeBlockType(instances, block_type_id)
            /\ blockTypes' = Without(blockTypes, {block_type_id})
            /\ last' = Call("delete_block_type", block_type_id, "ok", 0,
                            Cardinality(DOMAIN instances) - Cardinality(DOMAIN instances'), 0)
    /\ UNCHANGED << projects, nextType, nextProject, nextInstance >>

get_project_call(project_id) ==
    /\ last' = IF project_id \in DOMAIN projects
               THEN Call("get_project", project_id, "ok",
                         get_project(blockTypes, projects, instances, project_id), 0, 0)
               ELSE NotFound("get_project", project_id)
    /\ UNCHANGED << blockTypes, projects, instances, nextType, nextProject, nextInstance >>

create_project(name, blocks_data) ==
    /\ Used + 1 + Len(blocks_data) <= MaxRows
    /\ LET projs == projects @@ (nextProject :> ProjectRow(name))
           done == InsertBlocks(instances, nextInstance, nextProject, blocks_data,
                                blockTypes, projs)
       IN /\ projects' = projs
          /\ nextProject' = nextProject + 1
          /\ instances' = done.instances
          /\ nextInstance' = done.next
          /\ last' = Call("create_project", 0, done.result,
                          IF done.result = "ok" THEN nextProject ELSE 0,
                          0, done.next - nextInstance)
    /\ UNCHANGED << blockTypes, nextType >>

update_project(project_id, name, blocks_data) ==
    /\ Used + (IF IsNone(blocks_data) THEN 0 ELSE Len(Val(blocks_data))) <= MaxRows
    /\ IF project_id \notin DOMAIN projects
       THEN /\ last' = NotFound("update_project", project_id)
            /\ UNCHANGED << projects, instances, nextInstance >>
       ELSE LET done == IF IsNone(blocks_data)
                        THEN [instances |-> instances, next |-> nextInstance, result |-> "ok"]
                        ELSE InsertBlocks(DeleteBlocks(instances, project_id), nextInstance,
                                          project_id, Val(blocks_data), blockTypes, projects)
            IN /\ instances' = done.instances
               /\ nextInstance' = done.next
               \* project.save() is reached only when every INSERT succeeded
               /\ projects' = IF done.result = "ok" /\ ~IsNone(name)
                              THEN [projects EXCEPT ![project_id] = ProjectRow(Val(name))]
                              ELSE projects
               /\ last' = Call("update_project", project_id, done.result,
                               IF done.result = "ok" THEN project_id ELSE 0,
                               IF IsNone(blocks_data) THEN 0
                               ELSE Cardinality(BlocksOf(instances, project_id)),
                               done.next - nextInstance)
    /\ UNCHANGED << blockTypes, nextType, nextProject >>

delete_project(project_id) ==
    /\ IF project_id \notin DOMAIN projects
       THEN /\ last' = NotFound("delete_project", project_id)
            /\ UNCHANGED << projects, instances >>
       ELSE /\ instances' = CascadeProject(instances, project_id)
            /\ projects' = Without(projects, {project_id})
            /\ last' = Call("delete_project", project_id, "ok", 0,
                            Cardinality(DOMAIN instances) - Cardinality(DOMAIN instances'), 0)
    /\ UNCHANGED << blockTypes, nextType, nextProject, nextInstance >>

\* ------------------------------------------------------------------ behaviour
\* The database as main() leaves it: init_database has run on an empty
\* database and created the default catalog.
Init ==
    /\ blockTypes = [i \in 1 .. Len(default_blocks) |-> default_blocks[i]]
    /\ projects = << >>
    /\ instances = << >>
    /\ nextType = FirstNewType
    /\ nextProject = 1
    /\ nextInstance = 1
    /\ last = Call("init_database", 0, "ok", 0, 0, 0)
    /\ clients = [c \in Clients |-> Idle]
    /\ InitCanvas
    /\ InitDesk
    /\ InitRest

CreateBlockType ==
    /\ \E n \in TypeNameInputs, p \in PriceInputs : create_block_type(n, p)
    /\ UNCHANGED << clients, guiVars, deskVars, restVars >>
UpdateBlockType ==
    /\ \E t \in TypeIdInputs, e \in TypeEdits : update_block_type(t, e[1], e[2])
    /\ UNCHANGED << clients, guiVars, deskVars, restVars >>
DeleteBlockType ==
    /\ \E t \in TypeIdInputs : delete_block_type(t)
    /\ UNCHANGED << clients, guiVars, deskVars, restVars >>
GetProject ==
    /\ \E p \in ProjectIdInputs : get_project_call(p)
    /\ UNCHANGED << clients, guiVars, deskVars, restVars >>
CreateProject ==
    /\ \E n \in NameInputs, b \in BlockLists : create_project(n, b)
    /\ UNCHANGED << clients, guiVars, deskVars, restVars >>
UpdateProject ==
    /\ \E p \in ProjectIdInputs, e \in ProjectEdits : update_project(p, e[1], e[2])
    /\ UNCHANGED << clients, guiVars, deskVars, restVars >>
DeleteProject ==
    /\ \E p \in ProjectIdInputs : delete_project(p)
    /\ UNCHANGED << clients, guiVars, deskVars, restVars >>

Next ==
    \/ CreateBlockType
    \/ UpdateBlockType
    \/ DeleteBlockType
    \/ GetProject
    \/ CreateProject
    \/ UpdateProject
    \/ DeleteProject

Spec == Init /\ [][Next]_vars

\* ------------------------------------------------------------------ interleaving
\* update_project statement by statement, for processes that share the
\* database: each ORM statement is its own transaction.
RECURSIVE SumOver(_, _)
SumOver(S, f) ==
    IF S = {} THEN 0
    ELSE LET c == CHOOSE d \in S : TRUE IN f[c] + SumOver(S \ {c}, f)

\* INSERTs the calls in flight may still make
Pending ==
    SumOver(Clients,
            [c \in Clients |->
               IF clients[c].pc \in {"get", "delete", "insert"} /\ ~IsNone(clients[c].blocks_data)
               THEN Len(Val(clients[c].blocks_data)) - (clients[c].k - 1) ELSE 0])

\* a process calls update_project(project_id, name, blocks_data)
up_call(c, project_id, name, blocks_data) ==
    /\ clients[c].pc = "idle"
    /\ Used + Pending + (IF IsNone(blocks_data) THEN 0 ELSE Len(Val(blocks_data))) <= MaxRows
    /\ clients' = [clients EXCEPT ![c] =
                     [pc |-> "get", project_id |-> project_id, name |-> name,
                      blocks_data |-> blocks_data, k |-> 1, result |-> "running"]]
    /\ UNCHANGED << dbVars, last, guiVars, deskVars, restVars >>

\* project = Project.objects.get(id=project_id); project.name = name
up_get(c) ==
    /\ clients[c].pc = "get"
    /\ clients' = [clients EXCEPT ![c] =
          IF @.project_id \notin DOMAIN projects
          THEN [@ EXCEPT !.pc = "done", !.result = "DoesNotExist"]
          ELSE [pc |-> IF IsNone(@.blocks_data) THEN "save" ELSE "delete",
                project_id |-> @.project_id,
                name |-> Some(IF IsNone(@.name) THEN projects[@.project_id].name
                              ELSE Val(@.name)),
                blocks_data |-> @.blocks_data, k |-> 1, result |-> "running"]]
    /\ UNCHANGED << dbVars, last, guiVars, deskVars, restVars >>

\* project.blocks.all().delete()
up_delete(c) ==
    /\ clients[c].pc = "delete"
    /\ instances' = DeleteBlocks(instances, clients[c].project_id)
    /\ clients' = [clients EXCEPT ![c].pc =
                     IF Len(Val(clients[c].blocks_data)) = 0 THEN "save" ELSE "insert"]
    /\ UNCHANGED << blockTypes, projects, nextType, nextProject, nextInstance, last, guiVars, deskVars, restVars >>

\* one BlockInstance.objects.create(...) of the loop
up_insert(c) ==
    /\ clients[c].pc = "insert"
    /\ LET me == clients[c]
           row == InstanceRow(me.project_id, Val(me.blocks_data)[me.k])
       IN IF ForeignKeysHold(row, blockTypes, projects)
          THEN /\ instances' = instances @@ (nextInstance :> row)
               /\ nextInstance' = nextInstance + 1
               /\ clients' = [clients EXCEPT ![c].k = me.k + 1,
                                             ![c].pc = IF me.k = Len(Val(me.blocks_data))
                                                       THEN "save" ELSE "insert"]
          ELSE /\ clients' = [clients EXCEPT ![c].pc = "done",
                                             ![c].result = "IntegrityError"]
               /\ UNCHANGED << instances, nextInstance >>
    /\ UNCHANGED << blockTypes, projects, nextType, nextProject, last, guiVars, deskVars, restVars >>

\* project.save(): UPDATE of the row by primary key, INSERT when no row matched
up_save(c) ==
    /\ clients[c].pc = "save"
    /\ projects' = IF clients[c].project_id \in DOMAIN projects
                   THEN [projects EXCEPT ![clients[c].project_id] =
                           ProjectRow(Val(clients[c].name))]
                   ELSE projects @@ (clients[c].project_id :> ProjectRow(Val(clients[c].name)))
    /\ clients' = [clients EXCEPT ![c].pc = "done", ![c].result = "ok"]
    /\ UNCHANGED << blockTypes, instances, nextType, nextProject, nextInstance, last, guiVars, deskVars, restVars >>

\* The shared database when the processes start: a project saved with one
\* block, as create_project("Room A", [to_dict of a 120 x 96 block]) leaves it.
SavedBlock == [block_type_id |-> 1, length |-> 120, width |-> 96, x |-> 0, y |-> 0]

InitConc ==
    /\ blockTypes = [i \in 1 .. Len(default_blocks) |-> default_blocks[i]]
    /\ projects = (1 :> ProjectRow("Room A"))
    /\ instances = (1 :> InstanceRow(1, SavedBlock))
    /\ nextType = FirstNewType
    /\ nextProject = 2
    /\ nextInstance = 2
    /\ last = Call("create_project", 0, "ok", 1, 0, 1)
    /\ clients = [c \in Clients |-> Idle]
    /\ InitCanvas
    /\ InitDesk
    /\ InitRest

UpCall ==
    \E c \in Clients, p \in ProjectIdInputs, n \in Opt(RenameInputs), b \in Opt(BlockLists) :
        up_call(c, p, n, b)
UpGet == \E c \in Clients : up_get(c)
UpDelete == \E c \in Clients : up_delete(c)
UpInsert == \E c \in Clients : up_insert(c)
UpSave == \E c \in Clients : up_save(c)

NextConc ==
    \/ UpCall
    \/ UpGet
    \/ UpDelete
    \/ UpInsert
    \/ UpSave

SpecConc == InitConc /\ [][NextConc]_vars

\* ------------------------------------------------------------------ cost engine
\* Python floats, kept exact: a number is the reduced fraction n/d with d > 0.
RECURSIVE GCD(_, _)
GCD(a, b) == IF b = 0 THEN a ELSE GCD(b, a % b)

Abs(i) == IF i < 0 THEN -i ELSE i

Frac(n, d) ==
    LET g == GCD(Abs(n), d) IN [n |-> n \div g, d |-> d \div g]

FDiv(a, k) == Frac(a.n, a.d * k)
FMul(a, b) == Frac(a.n * b.n, a.d * b.d)
FAdd(a, b) == Frac(a.n * b.d + b.n * a.d, a.d * b.d)

\* area with the conversion from inches to feet left out
area_Inches(block) == FMul(Num(block.length), Num(block.width))

\* BlockItem.area: (self.length / 12.0) * (self.width / 12.0)
area(block) == FMul(FDiv(Num(block.length), 12), FDiv(Num(block.width), 12))

\* BlockItem.cost: self.area * float(self.price_per_sqft)
cost(block) == FMul(area(block), Num(block.price_per_sqft))

\* ProjectsPanel.show_project_details, the term summed for one block:
\* (block.length / 12.0) * (block.width / 12.0) * float(block.block_type.price_per_sqft)
panel_cost(block) ==
    FMul(FMul(FDiv(Num(block.length), 12), FDiv(Num(block.width), 12)),
         Num(block.price_per_sqft))

\* sum() with the accumulator overwritten by each term
sum_Last(terms) ==
    IF Len(terms) = 0 THEN Num(0) ELSE terms[Len(terms)]

\* the builtin sum(): 0 plus the terms, left to right
RECURSIVE sum(_)
sum(terms) ==
    IF Len(terms) = 0 THEN Num(0)
    ELSE FAdd(sum(SubSeq(terms, 1, Len(terms) - 1)), terms[Len(terms)])

\* CanvasWidget.get_total_cost / get_total_area over a list of BlockItem objects
get_total_cost(blocks, heap) == sum([k \in 1 .. Len(blocks) |-> cost(heap[blocks[k]])])
get_total_area(blocks, heap) == sum([k \in 1 .. Len(blocks) |-> area(heap[blocks[k]])])

\* ProjectsPanel.show_project_details: the total shown for a list of blocks
panel_total(blocks, heap) == sum([k \in 1 .. Len(blocks) |-> panel_cost(heap[blocks[k]])])

\* CalculatorTab.update_cost_summary: the three labels, from self.blocks
update_cost_summary(blocks, heap) ==
    [ count |-> Len(blocks),
      area  |-> sum([k \in 1 .. Len(blocks) |-> area(heap[blocks[k]])]),
      cost  |-> sum([k \in 1 .. Len(blocks) |-> cost(heap[blocks[k]])]) ]

\* ------------------------------------------------------------------ canvas
\* contains_point with the four edges excluded
contains_point_Open(block, px, py) ==
    /\ block.x < px /\ px < block.x + block.length
    /\ block.y < py /\ py < block.y + block.width

\* BlockItem.contains_point
contains_point(block, px, py) ==
    /\ block.x <= px /\ px <= block.x + block.length
    /\ block.y <= py /\ py <= block.y + block.width

\* select_block_at scanning self.blocks in insertion order
RECURSIVE select_block_at_Forward(_, _, _, _)
select_block_at_Forward(blocks, heap, x, y) ==
    IF Len(blocks) = 0 THEN None
    ELSE IF contains_point(heap[Head(blocks)], x, y) THEN Some(Head(blocks))
    ELSE select_block_at_Forward(Tail(blocks), heap, x, y)

\* CanvasWidget.select_block_at: the value returned (and stored in
\* selected_block): the first hit of reversed(self.blocks), None without a hit
RECURSIVE select_block_at(_, _, _, _)
select_block_at(blocks, heap, x, y) ==
    IF Len(blocks) = 0 THEN None
    ELSE IF contains_point(heap[blocks[Len(blocks)]], x, y) THEN Some(blocks[Len(blocks)])
    ELSE select_block_at(SubSeq(blocks, 1, Len(blocks) - 1), heap, x, y)

\* list.remove(block): the first occurrence goes
RECURSIVE Remove(_, _)
Remove(blocks, block) ==
    IF Len(blocks) = 0 THEN << >>
    ELSE IF Head(blocks) = block THEN Tail(blocks)
    ELSE << Head(blocks) >> \o Remove(Tail(blocks), block)

InList(blocks, block) == \E k \in 1 .. Len(blocks) : blocks[k] = block

\* QSpinBox.setValue on a box with range 1..1000
SpinClamp(v) == IF v < 1 THEN 1 ELSE IF v > 1000 THEN 1000 ELSE v

\* BlockItem(block_type_id, name, price_per_sqft, length, width, x, y, color)
BlockItem(block_type_id, price_per_sqft, length, width, x, y) ==
    [ block_type_id |-> block_type_id, price_per_sqft |-> price_per_sqft,
      length |-> length, width |-> width, x |-> x, y |-> y ]

\* CalculatorTab.update_selected_block_size, the slot of both spin boxes: the
\* heap after it ran with the given spin values
update_selected_block_size(heap, selected_block, length_spin, width_spin) ==
    IF IsNone(selected_block) THEN heap
    ELSE [heap EXCEPT ![Val(selected_block)].length = length_spin,
                      ![Val(selected_block)].width = width_spin]

\* CalculatorTab.on_block_selected(block): length_spin.setValue, then
\* width_spin.setValue; a setValue that changes the box fires valueChanged,
\* whose slot writes BOTH spin values into the selected block.
on_block_selected(heap, block, length_spin, width_spin) ==
    LET l1 == SpinClamp(heap[block].length)
        h1 == IF l1 # length_spin
              THEN update_selected_block_size(heap, Some(block), l1, width_spin)
              ELSE heap
        w1 == SpinClamp(h1[block].width)
        h2 == IF w1 # width_spin
              THEN update_selected_block_size(h1, Some(block), l1, w1)
              ELSE h1
    IN [heap |-> h2, length_spin |-> l1, width_spin |-> w1]

\* CalculatorTab.add_block(block_type): a BlockItem of the spin-box size, put
\* in both lists
add_block(heap, t, c, block_type_id, price_per_sqft) ==
    LET block == Len(heap) + 1
        at == 50 + ((Len(t.blocks) * 20) % 300)
        heap1 == Append(heap, BlockItem(block_type_id, price_per_sqft,
                                        t.length_spin, t.width_spin, at, at))
        blocks1 == Append(t.blocks, block)
    IN [ items  |-> heap1,
         tab    |-> [t EXCEPT !.blocks = blocks1,
                              !.summary = update_cost_summary(blocks1, heap1)],
         canvas |-> [c EXCEPT !.blocks = Append(c.blocks, block)] ]

\* the "Add Block" button on a block type of the list
AddBlock(block_type_id) ==
    /\ Len(items) < MaxItems
    /\ block_type_id \in DOMAIN blockTypes
    /\ LET done == add_block(items, tab, canvas, block_type_id,
                             blockTypes[block_type_id].price_per_sqft)
       IN /\ items' = done.items
          /\ tab' = done.tab
          /\ canvas' = done.canvas
    /\ ui' = Event("add_block", 0, 0, None)
    /\ UNCHANGED << dbVars, last >>

\* CalculatorTab.add_custom_block: both dialogs accepted (the name dialog
\* returns on an empty name; getDouble offers 0.0 .. 10000.0)
add_custom_block(name, price) ==
    /\ Len(items) < MaxItems
    /\ name # ""
    /\ 0 <= price /\ price <= 10000
    /\ create_block_type(name, price)
    /\ LET done == add_block(items, tab, canvas, nextType, price)
       IN /\ items' = done.items
          /\ tab' = done.tab
          /\ canvas' = done.canvas
    /\ ui' = Event("add_custom_block", 0, 0, None)

\* CanvasWidget.mousePressEvent at (x, y), with the slot of block_clicked
mousePressEvent(x, y) ==
    LET block == select_block_at(canvas.blocks, items, x, y)
    IN /\ ui' = Event("mousePressEvent", x, y, block)
       /\ IF IsNone(block)
          THEN /\ canvas' = [canvas EXCEPT !.selected_block = None]
               /\ UNCHANGED << items, tab >>
          ELSE LET done == on_block_selected(items, Val(block),
                                             tab.length_spin, tab.width_spin)
               IN /\ canvas' = [canvas EXCEPT !.selected_block = block,
                                              !.is_dragging = TRUE,
                                              !.drag_offset_x = x - items[Val(block)].x,
                                              !.drag_offset_y = y - items[Val(block)].y]
                  /\ items' = done.heap
                  /\ tab' = [tab EXCEPT !.length_spin = done.length_spin,
                                        !.width_spin = done.width_spin,
                                        !.summary = IF done.length_spin # tab.length_spin
                                                       \/ done.width_spin # tab.width_spin
                                                    THEN update_cost_summary(tab.blocks, done.heap)
                                                    ELSE @]
       /\ UNCHANGED << dbVars, last >>

\* the user sets the length (width) spin box to another value
length_spin_valueChanged(v) ==
    /\ v # tab.length_spin
    /\ items' = update_selected_block_size(items, canvas.selected_block, v, tab.width_spin)
    /\ tab' = [tab EXCEPT !.length_spin = v,
                          !.summary = IF IsNone(canvas.selected_block) THEN @
                                      ELSE update_cost_summary(tab.blocks, items')]
    /\ ui' = Event("length_spin", 0, 0, None)
    /\ UNCHANGED << dbVars, last, canvas >>

width_spin_valueChanged(v) ==
    /\ v # tab.width_spin
    /\ items' = update_selected_block_size(items, canvas.selected_block, tab.length_spin, v)
    /\ tab' = [tab EXCEPT !.width_spin = v,
                          !.summary = IF IsNone(canvas.selected_block) THEN @
                                      ELSE update_cost_summary(tab.blocks, items')]
    /\ ui' = Event("width_spin", 0, 0, None)
    /\ UNCHANGED << dbVars, last, canvas >>

\* clear_canvas of the canvas with the selection left as it was
canvas_clear_canvas_KeepSelection(c) == [c EXCEPT !.blocks = << >>]

\* CanvasWidget.clear_canvas
canvas_clear_canvas(c) == [c EXCEPT !.blocks = << >>, !.selected_block = None]

\* CalculatorTab.delete_selected_block: canvas.remove_block first, which
\* clears canvas.selected_block, then the test of self.blocks against it
delete_selected_block ==
    /\ ~IsNone(canvas.selected_block)
    /\ LET block == Val(canvas.selected_block)
           hit == InList(canvas.blocks, block)
           selected1 == IF hit THEN None ELSE canvas.selected_block
           blocks1 == IF ~IsNone(selected1) /\ InList(tab.blocks, Val(selected1))
                      THEN Remove(tab.blocks, Val(selected1)) ELSE tab.blocks
       IN /\ canvas' = [canvas EXCEPT !.blocks = IF hit THEN Remove(@, block) ELSE @,
                                      !.selected_block = None]
          /\ tab' = [tab EXCEPT !.blocks = blocks1,
                                !.summary = update_cost_summary(blocks1, items)]
    /\ ui' = Event("delete_selected_block", 0, 0, None)
    /\ UNCHANGED << dbVars, last, items >>

\* CalculatorTab.clear_canvas, answered Yes; the BlockItem objects, no longer
\* referenced by either list or by the selection, are collected
clear_canvas ==
    /\ tab' = [tab EXCEPT !.blocks = << >>,
                          !.summary = update_cost_summary(<< >>, items),
                          !.current_project_id = None]
    /\ canvas' = canvas_clear_canvas(canvas)
    /\ items' = << >>
    /\ ui' = Event("clear_canvas", 0, 0, None)
    /\ UNCHANGED << dbVars, last >>

\* CanvasWidget.mouseMoveEvent at (x, y), with the slot of block_moved
\* (on_block_moved: update_cost_summary)
mouseMoveEvent(x, y) ==
    /\ ui' = Event("mouseMoveEvent", x, y, None)
    /\ IF canvas.is_dragging /\ ~IsNone(canvas.selected_block)
       THEN /\ x - canvas.drag_offset_x \in 0 .. MaxCoord
            /\ y - canvas.drag_offset_y \in 0 .. MaxCoord
            /\ items' = [items EXCEPT ![Val(canvas.selected_block)].x = x - canvas.drag_offset_x,
                                      ![Val(canvas.selected_block)].y = y - canvas.drag_offset_y]
            /\ tab' = [tab EXCEPT !.summary = update_cost_summary(tab.blocks, items')]
       ELSE UNCHANGED << items, tab >>
    /\ UNCHANGED << dbVars, last, canvas >>

\* CanvasWidget.mouseReleaseEvent
mouseReleaseEvent ==
    /\ canvas' = [canvas EXCEPT !.is_dragging = FALSE]
    /\ ui' = Event("mouseReleaseEvent", 0, 0, None)
    /\ UNCHANGED << dbVars, last, items, tab >>

\* BlockItem.to_dict
to_dict(block) ==
    [ block_type_id |-> block.block_type_id, length |-> block.length,
      width |-> block.width, x |-> block.x, y |-> block.y ]

\* CalculatorTab.save_project with the name typed into the dialog: nothing
\* without blocks or without a name; update_project on the project that is
\* open, create_project otherwise; an exception of the gateway ends in a
\* message box
save_project(name) ==
    /\ UNCHANGED << items, canvas >>
    /\ IF Len(tab.blocks) = 0 \/ name = ""
       THEN /\ ui' = Event("save_project return", 0, 0, None)
            /\ UNCHANGED << dbVars, last, tab >>
       ELSE /\ ui' = Event("save_project", 0, 0, None)
            /\ LET blocks_data == [k \in 1 .. Len(tab.blocks) |-> to_dict(items[tab.blocks[k]])]
               IN IF IsNone(tab.current_project_id)
                  THEN /\ create_project(name, blocks_data)
                       /\ tab' = [tab EXCEPT !.current_project_id =
                                     IF last'.result = "ok" THEN Some(last'.ret) ELSE @]
                  ELSE /\ update_project(Val(tab.current_project_id), Some(name),
                                         Some(blocks_data))
                       /\ UNCHANGED tab

\* the BlockItem load_project builds from one block of get_project's answer
LoadedItem(block) ==
    BlockItem(block.block_type_id, block.price_per_sqft, block.length, block.width,
              block.x, block.y)

\* CalculatorTab.load_project(project): get_project first (an exception leaves
\* the tab as it was), then both lists are emptied and refilled from the rows
load_project(project_id) ==
    /\ get_project_call(project_id)
    /\ ui' = Event("load_project", 0, 0, None)
    /\ IF project_id \notin DOMAIN projects
       THEN UNCHANGED << items, tab, canvas >>
       ELSE LET full_project == get_project(blockTypes, projects, instances, project_id)
                loaded == [k \in 1 .. Len(full_project.blocks) |-> k]
            IN /\ items' = [k \in 1 .. Len(full_project.blocks) |->
                              LoadedItem(full_project.blocks[k])]
               /\ canvas' = [canvas_clear_canvas(canvas) EXCEPT !.blocks = loaded]
               /\ tab' = [tab EXCEPT !.blocks = loaded,
                                     !.current_project_id = Some(project_id),
                                     !.summary = update_cost_summary(loaded, items')]

AddBlockClicked ==
    /\ \E t \in BlockChoices : AddBlock(t)
    /\ UNCHANGED << clients, deskVars, restVars >>
AddCustomBlock ==
    /\ \E n \in TypeNameInputs \cup {""}, p \in CustomPriceInputs : add_custom_block(n, p)
    /\ UNCHANGED << clients, deskVars, restVars >>
MousePress ==
    /\ \E pt \in PointInputs : mousePressEvent(pt[1], pt[2])
    /\ UNCHANGED << clients, deskVars, restVars >>
LengthChanged ==
    /\ \E v \in LengthInputs : length_spin_valueChanged(v)
    /\ UNCHANGED << clients, deskVars, restVars >>
WidthChanged ==
    /\ \E v \in WidthInputs : width_spin_valueChanged(v)
    /\ UNCHANGED << clients, deskVars, restVars >>
DeleteSelectedBlock ==
    /\ delete_selected_block
    /\ UNCHANGED << clients, deskVars, restVars >>
ClearCanvas ==
    /\ clear_canvas
    /\ UNCHANGED << clients, deskVars, restVars >>
MouseMove ==
    /\ \E pt \in MovePoints : mouseMoveEvent(pt[1], pt[2])
    /\ UNCHANGED << clients, deskVars, restVars >>
MouseRelease ==
    /\ mouseReleaseEvent
    /\ UNCHANGED << clients, deskVars, restVars >>
SaveProject ==
    /\ \E n \in NameInputs : save_project(n)
    /\ UNCHANGED << clients, deskVars, restVars >>
LoadProject ==
    /\ \E p \in ProjectIdInputs : load_project(p)
    /\ UNCHANGED << clients, deskVars, restVars >>

NextCanvas ==
    \/ AddBlockClicked
    \/ AddCustomBlock
    \/ MousePress
    \/ LengthChanged
    \/ WidthChanged
    \/ DeleteSelectedBlock
    \/ ClearCanvas

SpecCanvas == Init /\ [][NextCanvas]_vars

\* SpecDrag: the canvas under the mouse: press, move, release, next to the
\* handlers that add, resize and remove blocks
NextDrag ==
    \/ AddBlockClicked
    \/ MousePress
    \/ MouseMove
    \/ MouseRelease
    \/ LengthChanged
    \/ WidthChanged
    \/ DeleteSelectedBlock
    \/ ClearCanvas

SpecDrag == Init /\ [][NextDrag]_vars

\* SpecProject: the calculator tab saving and loading projects through the
\* gateway
NextProjectTab ==
    \/ AddBlockClicked
    \/ MousePress
    \/ DeleteSelectedBlock
    \/ ClearCanvas
    \/ SaveProject
    \/ LoadProject

SpecProject == Init /\ [][NextProjectTab]_vars

\* ------------------------------------------------------------------ generation worker
\* TestGenTab.generate_tests and TestGenerationWorker (desktop_app/testgen_tab.py):
\* the worker thread runs statement by statement next to the GUI thread; a
\* signal emitted by the worker is queued and its slot runs in the GUI thread.

\* str.startswith(('http://', 'https://')) on a URL given as scheme and rest
startswith_http(website_url) ==
    Len(website_url) > 0 /\ website_url[1] \in {"http://", "https://"}

\* TestGenerationWorker._generate_sample_test: the template returned
generate_sample_test(framework, language) ==
    IF framework = "playwright" /\ language = "python" THEN "playwright/python"
    ELSE IF framework = "playwright" /\ language = "javascript" THEN "playwright/javascript"
    ELSE IF framework = "selenium" /\ language = "python" THEN "selenium/python"
    ELSE "# No test template available for this combination"

Signal(sig, arg) == [sig |-> sig, arg |-> arg]

\* next_pc with error.emit in a finally clause: it runs after finished.emit too
next_pc_Finally(pc) ==
    CASE pc = "analyze"   -> "scenarios"
      [] pc = "scenarios" -> "generate"
      [] pc = "generate"  -> "complete"
      [] pc = "complete"  -> "finished"
      [] pc = "finished"  -> "except"
      [] OTHER            -> "done"

\* TestGenerationWorker.run: the statement after each statement when none raises
next_pc(pc) ==
    CASE pc = "analyze"   -> "scenarios"
      [] pc = "scenarios" -> "generate"
      [] pc = "generate"  -> "complete"
      [] pc = "complete"  -> "finished"
      [] OTHER            -> "done"

\* the statements of run inside try before finished.emit
InTry == {"analyze", "scenarios", "generate", "complete"}

\* TestGenTab.generate_tests: the button is clicked (it can be only while enabled)
generate_tests_clicked(website_url, framework, language) ==
    /\ desk.generate_btn
    /\ IF Len(website_url) = 0 \/ ~startswith_http(website_url)
       THEN /\ desk' = [desk EXCEPT !.message = "Input Error"]
            /\ UNCHANGED << worker, signals, emitted >>
       ELSE /\ desk' = [desk EXCEPT !.generate_btn = FALSE, !.progress_bar = TRUE,
                                    !.message = ""]
            /\ worker' = [pc |-> "analyze", website_url |-> website_url,
                          framework |-> framework, language |-> language,
                          test_code |-> ""]
            /\ signals' = << >>
            /\ emitted' = << >>

\* one statement of TestGenerationWorker.run
worker_run ==
    /\ worker.pc \notin {"none", "done"}
    /\ LET e == CASE worker.pc = "analyze"   -> Some(Signal("progress", "Analyzing website..."))
                  [] worker.pc = "scenarios" -> Some(Signal("progress", "Generating test scenarios..."))
                  [] worker.pc = "complete"  -> Some(Signal("progress", "Test generation complete!"))
                  [] worker.pc = "finished"  -> Some(Signal("finished", worker.test_code))
                  [] worker.pc = "except"    -> Some(Signal("error", "str(e)"))
                  [] OTHER                   -> None
       IN /\ signals' = signals \o e
          /\ emitted' = emitted \o e
    /\ worker' = [worker EXCEPT !.pc = next_pc(worker.pc),
                                !.test_code = IF worker.pc = "generate"
                                              THEN generate_sample_test(worker.framework,
                                                                        worker.language)
                                              ELSE @]
    /\ UNCHANGED desk

\* a statement of the try block raises: control goes to the except clause
worker_raise ==
    /\ worker.pc \in InTry
    /\ worker' = [worker EXCEPT !.pc = "except"]
    /\ UNCHANGED << desk, signals, emitted >>

\* TestGenTab.on_generation_progress
on_generation_progress(d, message) == [d EXCEPT !.format = message]

\* TestGenTab.on_generation_finished
on_generation_finished(d, test_code) ==
    [d EXCEPT !.progress_bar = FALSE, !.generate_btn = TRUE,
              !.test_output = test_code, !.save_test_btn = TRUE, !.message = "Success"]

\* on_generation_error showing the message box only
on_generation_error_MessageOnly(d, error) == [d EXCEPT !.message = "Error"]

\* TestGenTab.on_generation_error
on_generation_error(d, error) ==
    [d EXCEPT !.progress_bar = FALSE, !.generate_btn = TRUE, !.message = "Error"]

\* the GUI thread runs the slot of the oldest queued signal:
\* on_generation_progress, on_generation_finished or on_generation_error
slot ==
    /\ Len(signals) > 0
    /\ signals' = Tail(signals)
    /\ desk' = CASE Head(signals).sig = "progress" ->
                      on_generation_progress(desk, Head(signals).arg)
                 [] Head(signals).sig = "finished" ->
                      on_generation_finished(desk, Head(signals).arg)
                 [] OTHER ->
                      on_generation_error(desk, Head(signals).arg)
    /\ UNCHANGED << worker, emitted >>

GenerateTestsClicked ==
    /\ \E u \in UrlInputs, f \in FrameworkInputs, l \in LanguageInputs :
          generate_tests_clicked(u, f, l)
    /\ UNCHANGED << dbVars, last, clients, guiVars, restVars >>
WorkerRun ==
    /\ worker_run
    /\ UNCHANGED << dbVars, last, clients, guiVars, restVars >>
WorkerRaise ==
    /\ worker_raise
    /\ UNCHANGED << dbVars, last, clients, guiVars, restVars >>
Slot ==
    /\ slot
    /\ UNCHANGED << dbVars, last, clients, guiVars, restVars >>

NextWorker ==
    \/ GenerateTestsClicked
    \/ WorkerRun
    \/ WorkerRaise
    \/ Slot

SpecWorker == Init /\ [][NextWorker]_vars

\* the worker thread keeps being scheduled until run returns, and the event
\* loop of the GUI thread keeps delivering the queued signals
SpecWorkerFair == SpecWorker /\ WF_vars(WorkerRun) /\ WF_vars(Slot)

\* ------------------------------------------------------------------ test generation
\* testgen/views.py and testgen/services.py: the REST actions generate_tests
\* and regenerate over TestGeneratorService.generate_test.  A provider reply is
\* an exception (requests raising, raise_for_status) or a completion whose
\* content is text, or null, or text the database cannot encode.

\* one call of the provider: the scenario prompted for, what came back
Sent(scenario, reply) == [scenario |-> scenario, reply |-> reply]

Raises(error) == [error |-> error]
Reply(content) == [content |-> content]

\* a completion text with a character the database driver refuses to encode
\* (a lone surrogate from a "\ud800" escape; NUL on PostgreSQL)
Unencodable == "\\ud800"

ReplyInputs == { Raises("HTTPError"), Reply(Some("code")), Reply(None), Reply(Some(Unencodable)) }

\* A text is the sequence of its pieces.  The URL an LLMService posts to:
\* _google_completion puts the API key in the query string, the other
\* providers send it in a header
Url(provider) ==
    IF provider.provider_type = "google"
    THEN << provider.api_endpoint, "?key=", provider.api_key >>
    ELSE << provider.api_endpoint, "/chat/completions" >>

\* str(e): the HTTPError of raise_for_status names the URL of the request
str(error, url) ==
    IF error = "HTTPError" THEN << "400 Client Error: Bad Request for url: " >> \o url
    ELSE << error >>

\* the LLM provider of a test project that has one
ProviderOf(test_project) == llmProviders[Val(testProjects[test_project].llm_provider)]

\* Model.save(): the UPDATE of the row from the instance; the driver raises
\* when a text column cannot be encoded, and the row stays as it was
save(table, id, instance) ==
    IF instance.test_code = Unencodable
    THEN [ok |-> FALSE, table |-> table, error |-> "UnicodeEncodeError"]
    ELSE [ok |-> TRUE, table |-> [table EXCEPT ![id] = instance], error |-> ""]

\* the except clause of generate_test: status, error_message, save, raise
generate_test_except(table, id, instance, error) ==
    save(table, id, [instance EXCEPT !.status = "failed", !.error_message = Some(error)]).table

\* TestGeneratorService.generate_test(scenario, config) with the reply the
\* provider gives to its one call: the table afterwards, the exception that
\* leaves the call (None when the record is returned), the provider calls made
generate_test(table, id, test_project, scenario, reply) ==
    LET created == [ test_project |-> test_project, test_description |-> scenario,
                     test_code |-> "", status |-> "generating", error_message |-> None ]
        table1 == table @@ (id :> created)
        url == Url(ProviderOf(test_project))
    IN IF "error" \in DOMAIN reply
       THEN [ table  |-> generate_test_except(table1, id, created, str(reply.error, url)),
              raised |-> Some(str(reply.error, url)),
              calls  |-> << Sent(scenario, reply) >> ]
       ELSE IF IsNone(reply.content)
       THEN \* _extract_code_from_response(None): None has no strip()
            [ table  |-> generate_test_except(table1, id, created, str("AttributeError", url)),
              raised |-> Some(str("AttributeError", url)),
              calls  |-> << Sent(scenario, reply) >> ]
       ELSE LET instance == [created EXCEPT !.test_code = Val(reply.content),
                                            !.status = "completed"]
                saved == save(table1, id, instance)
            IN IF saved.ok
               THEN [ table |-> saved.table, raised |-> None, calls |-> << Sent(scenario, reply) >> ]
               ELSE \* the except clause saves the same instance again
                    LET again == save(table1, id,
                                      [instance EXCEPT !.status = "failed",
                                                       !.error_message =
                                                           Some(str(saved.error, url))])
                    IN [ table  |-> again.table,
                         raised |-> Some(str(IF again.ok THEN saved.error ELSE again.error,
                                             url)),
                         calls  |-> << Sent(scenario, reply) >> ]

\* TestGenerationRequestSerializer.is_valid
is_valid(data) ==
    /\ "test_scenarios" \in DOMAIN data
    /\ \A k \in 1 .. Len(data.test_scenarios) : data.test_scenarios[k] # ""
    /\ Get(data, "timeout", 30000) \in 1000 .. 120000

\* GeneratedTestSerializer(test).data, the fields kept here
Serialized(table, id) ==
    [ id |-> id, test_description |-> table[id].test_description,
      test_code |-> table[id].test_code, status |-> table[id].status,
      error_message |-> table[id].error_message ]

\* generate_loop without the try/except: the first failure ends the loop
RECURSIVE generate_loop_Abort(_, _, _, _, _, _)
generate_loop_Abort(table, id, test_project, scenarios, replies, acc) ==
    IF Len(scenarios) = 0 THEN [acc EXCEPT !.table = table, !.next = id]
    ELSE LET done == generate_test(table, id, test_project, Head(scenarios), Head(replies))
         IN IF IsNone(done.raised)
            THEN generate_loop_Abort(done.table, id + 1, test_project, Tail(scenarios),
                    Tail(replies),
                    [acc EXCEPT !.generated_tests = Append(@, Serialized(done.table, id)),
                                !.calls = @ \o done.calls])
            ELSE [acc EXCEPT !.table = done.table, !.next = id + 1,
                             !.errors = Append(@, [scenario |-> Head(scenarios),
                                                   error |-> Val(done.raised)]),
                             !.calls = @ \o done.calls]

\* the for-loop of generate_tests over the scenarios still to do
RECURSIVE generate_loop(_, _, _, _, _, _)
generate_loop(table, id, test_project, scenarios, replies, acc) ==
    IF Len(scenarios) = 0 THEN [acc EXCEPT !.table = table, !.next = id]
    ELSE LET done == generate_test(table, id, test_project, Head(scenarios), Head(replies))
         IN generate_loop(done.table, id + 1, test_project, Tail(scenarios), Tail(replies),
               [acc EXCEPT
                  !.generated_tests = IF IsNone(done.raised)
                                      THEN Append(@, Serialized(done.table, id)) ELSE @,
                  !.errors = IF IsNone(done.raised) THEN @
                             ELSE Append(@, [scenario |-> Head(scenarios),
                                             error |-> Val(done.raised)]),
                  !.calls = @ \o done.calls])

Response(op, pk, status, body) == [op |-> op, pk |-> pk, status |-> status, body |-> body]

Request(user, op, pk, data) == [user |-> user, op |-> op, pk |-> pk, data |-> data]

\* no_provider with the test left out of the view
no_provider_Unchecked(test_project) == FALSE

\* `if not test_project.llm_provider`
no_provider(test_project) == IsNone(test_project.llm_provider)

\* TestProjectViewSet.get_queryset: the test projects the user created
get_queryset(user) == { pk \in DOMAIN testProjects : testProjects[pk].created_by = user }

\* GeneratedTestViewSet.get_queryset: the tests of the user's test projects
generated_tests_queryset(user) ==
    { id \in DOMAIN generatedTests : generatedTests[id].test_project \in get_queryset(user) }

\* TestProjectViewSet.generate_tests: POST /projects/{pk}/generate_tests/
generate_tests(user, pk, data, replies) ==
    /\ request' = Request(user, "generate_tests", pk, data)
    /\ UNCHANGED << llmProviders, testProjects, pipelines >>
    /\ IF pk \notin get_queryset(user)
       THEN /\ response' = Response("generate_tests", pk, 404, [detail |-> "Not found."])
            /\ calls' = << >>
            /\ UNCHANGED << generatedTests, nextTest >>
       ELSE IF no_provider(testProjects[pk])
       THEN /\ response' = Response("generate_tests", pk, 400,
                                    [error |-> "LLM provider not configured for this project"])
            /\ calls' = << >>
            /\ UNCHANGED << generatedTests, nextTest >>
       ELSE IF ~is_valid(data)
       THEN /\ response' = Response("generate_tests", pk, 400, [detail |-> "ValidationError"])
            /\ calls' = << >>
            /\ UNCHANGED << generatedTests, nextTest >>
       ELSE LET done == generate_loop(generatedTests, nextTest, pk, data.test_scenarios, replies,
                                      [ table |-> generatedTests, next |-> nextTest,
                                        generated_tests |-> << >>, errors |-> << >>,
                                        calls |-> << >> ])
            IN /\ generatedTests' = done.table
               /\ nextTest' = done.next
               /\ calls' = done.calls
               /\ response' = Response("generate_tests", pk, 200,
                     [ generated_tests |-> done.generated_tests,
                       errors          |-> done.errors,
                       total           |-> Len(data.test_scenarios),
                       successful      |-> Len(done.generated_tests),
                       failed          |-> Len(done.errors) ])

\* GeneratedTestViewSet.regenerate: POST /generated-tests/{pk}/regenerate/
regenerate(user, pk, reply) ==
    /\ request' = Request(user, "regenerate", pk, << >>)
    /\ UNCHANGED << llmProviders, testProjects, pipelines >>
    /\ IF pk \notin generated_tests_queryset(user)
       THEN /\ response' = Response("regenerate", pk, 404, [detail |-> "Not found."])
            /\ calls' = << >>
            /\ UNCHANGED << generatedTests, nextTest >>
       ELSE IF no_provider(testProjects[generatedTests[pk].test_project])
       THEN /\ response' = Response("regenerate", pk, 400,
                                    [error |-> "LLM provider not configured"])
            /\ calls' = << >>
            /\ UNCHANGED << generatedTests, nextTest >>
       ELSE LET done == generate_test(generatedTests, nextTest,
                                      generatedTests[pk].test_project,
                                      generatedTests[pk].test_description, reply)
            IN /\ generatedTests' = done.table
               /\ nextTest' = nextTest + 1
               /\ calls' = done.calls
               /\ response' = IF IsNone(done.raised)
                              THEN Response("regenerate", pk, 200, Serialized(done.table, nextTest))
                              ELSE Response("regenerate", pk, 500, [error |-> Val(done.raised)])

\* LLMProviderSerializer(provider).data: api_key is write_only and left out
LLMProviderSerializer(id) ==
    [ id |-> id, provider_type |-> llmProviders[id].provider_type,
      api_endpoint |-> llmProviders[id].api_endpoint ]

\* CICDPipelineSerializer(pipeline).data
CICDPipelineSerializer(row) ==
    [ provider |-> row.provider, config_content |-> row.config_content,
      file_path |-> row.file_path, cron_schedule |-> row.cron_schedule,
      on_push |-> row.on_push, on_pull_request |-> row.on_pull_request ]

\* the pipelines of a test project (the reverse of the one-to-one field)
PipelinesOf(table, pk) == { i \in DOMAIN table : table[i].test_project = pk }

\* TestProjectSerializer(test_project).data over the tables given
TestProjectSerializer(projs, tests, pipes, pk) ==
    [ id |-> pk,
      llm_provider |-> projs[pk].llm_provider,
      llm_provider_details |-> IF IsNone(projs[pk].llm_provider) THEN None
                               ELSE Some(LLMProviderSerializer(Val(projs[pk].llm_provider))),
      generated_tests |-> { Serialized(tests, id) :
                               id \in { i \in DOMAIN tests : tests[i].test_project = pk } },
      cicd_pipeline |-> { CICDPipelineSerializer(pipes[i]) : i \in PipelinesOf(pipes, pk) } ]

\* PATCH /projects/{pk}/ with llm_provider (null clears it): the field is a
\* primary key looked up in LLMProvider.objects.all()
partial_update(user, pk, llm_provider) ==
    /\ request' = Request(user, "partial_update", pk, [llm_provider |-> llm_provider])
    /\ calls' = << >>
    /\ UNCHANGED << llmProviders, pipelines, generatedTests, nextTest >>
    /\ IF pk \notin get_queryset(user)
       THEN /\ response' = Response("partial_update", pk, 404, [detail |-> "Not found."])
            /\ UNCHANGED testProjects
       ELSE IF ~IsNone(llm_provider) /\ Val(llm_provider) \notin DOMAIN llmProviders
       THEN /\ response' = Response("partial_update", pk, 400,
                                    [llm_provider |-> "Invalid pk - object does not exist."])
            /\ UNCHANGED testProjects
       ELSE /\ testProjects' = [testProjects EXCEPT ![pk].llm_provider = llm_provider]
            /\ response' = Response("partial_update", pk, 200,
                                    TestProjectSerializer(testProjects', generatedTests,
                                                          pipelines, pk))

\* GET /llm-providers/{pk}/
retrieve_llm_provider(user, pk) ==
    /\ request' = Request(user, "retrieve_llm_provider", pk, << >>)
    /\ calls' = << >>
    /\ response' = IF pk \in DOMAIN llmProviders /\ llmProviders[pk].created_by = user
                   THEN Response("retrieve_llm_provider", pk, 200, LLMProviderSerializer(pk))
                   ELSE Response("retrieve_llm_provider", pk, 404, [detail |-> "Not found."])
    /\ UNCHANGED << llmProviders, testProjects, pipelines, generatedTests, nextTest >>

\* GET /projects/{pk}/
retrieve_test_project(user, pk) ==
    /\ request' = Request(user, "retrieve_test_project", pk, << >>)
    /\ calls' = << >>
    /\ response' = IF pk \in get_queryset(user)
                   THEN Response("retrieve_test_project", pk, 200,
                                 TestProjectSerializer(testProjects, generatedTests,
                                                       pipelines, pk))
                   ELSE Response("retrieve_test_project", pk, 404, [detail |-> "Not found."])
    /\ UNCHANGED << llmProviders, testProjects, pipelines, generatedTests, nextTest >>

\* CICDGeneratorService.generate_github_actions: the template picked
generate_github_actions(test_project) ==
    LET key == << test_project.framework, test_project.language >>
        config == { << "playwright", "python" >>, << "playwright", "javascript" >>,
                    << "playwright", "typescript" >>, << "selenium", "python" >>,
                    << "selenium", "java" >> }
    IN IF key \in config THEN << "github_actions", key[1], key[2] >>
       ELSE << "github_actions", test_project.framework, "python" >>

\* CICDGeneratorService.generate_gitlab_ci: the template picked
generate_gitlab_ci(test_project) ==
    IF test_project.framework = "playwright" /\ test_project.language = "python"
    THEN << "gitlab_ci", "playwright", "python" >>
    ELSE << "gitlab_ci", "generic" >>

\* update_or_create as a plain create: a row is added every time
update_or_create_Create(table, pk, defaults) ==
    table @@ ((Len(table) + 1) :> ([test_project |-> pk] @@ defaults))

\* CICDPipeline.objects.update_or_create(test_project=..., defaults=...)
update_or_create(table, pk, defaults) ==
    IF PipelinesOf(table, pk) = {}
    THEN table @@ ((Len(table) + 1) :> ([test_project |-> pk] @@ defaults))
    ELSE LET i == CHOOSE j \in PipelinesOf(table, pk) : TRUE
         IN [table EXCEPT ![i] = [test_project |-> pk] @@ defaults]

\* TestProjectViewSet.generate_cicd: POST /projects/{pk}/generate_cicd/
generate_cicd(user, pk, data) ==
    /\ request' = Request(user, "generate_cicd", pk, data)
    /\ calls' = << >>
    /\ UNCHANGED << llmProviders, testProjects, generatedTests, nextTest >>
    /\ IF pk \notin get_queryset(user)
       THEN /\ response' = Response("generate_cicd", pk, 404, [detail |-> "Not found."])
            /\ UNCHANGED pipelines
       ELSE LET provider == Get(data, "provider", "github_actions")
            IN IF provider \notin {"github_actions", "gitlab_ci"}
               THEN /\ response' = Response("generate_cicd", pk, 400,
                                            [error |-> "Unsupported CI/CD provider"])
                    /\ UNCHANGED pipelines
               ELSE LET defaults ==
                           [ provider |-> provider,
                             config_content |-> IF provider = "github_actions"
                                                THEN generate_github_actions(testProjects[pk])
                                                ELSE generate_gitlab_ci(testProjects[pk]),
                             file_path |-> IF provider = "github_actions"
                                           THEN ".github/workflows/tests.yml"
                                           ELSE ".gitlab-ci.yml",
                             on_push |-> Get(data, "on_push", TRUE),
                             on_pull_request |-> Get(data, "on_pull_request", TRUE),
                             cron_schedule |-> Get(data, "cron_schedule", "0 0 * * *") ]
                    IN /\ pipelines' = update_or_create(pipelines, pk, defaults)
                       /\ response' = Response("generate_cicd", pk, 200,
                             [ message |-> "CI/CD pipeline generated successfully",
                               pipeline |-> CICDPipelineSerializer(
                                               [test_project |-> pk] @@ defaults),
                               created |-> PipelinesOf(pipelines, pk) = {} ])

GenerateTests ==
    /\ \E pk \in TestProjectIds, data \in DataInputs :
          /\ nextTest + Len(Get(data, "test_scenarios", << >>)) <= MaxTests + 1
          /\ \E replies \in [1 .. Len(Get(data, "test_scenarios", << >>)) -> ReplyInputs] :
                generate_tests(Owner, pk, data, replies)
    /\ UNCHANGED << dbVars, last, clients, guiVars, deskVars >>
Regenerate ==
    /\ nextTest <= MaxTests
    /\ \E pk \in 1 .. MaxTests, reply \in ReplyInputs : regenerate(Owner, pk, reply)
    /\ UNCHANGED << dbVars, last, clients, guiVars, deskVars >>
PartialUpdate ==
    /\ \E pk \in PatchedIds, p \in Opt({1}) : partial_update(Owner, pk, p)
    /\ UNCHANGED << dbVars, last, clients, guiVars, deskVars >>

NextRest ==
    \/ GenerateTests
    \/ Regenerate
    \/ PartialUpdate

SpecRest == Init /\ [][NextRest]_vars

\* SpecTenant: the same API used by two users, each also with the ids of the
\* other's rows
TenantData == { [test_scenarios |-> << "login" >>] }
TenantReplies == { Raises("HTTPError"), Reply(Some("code")) }
CicdBodies ==
    { [provider |-> c] : c \in CicdProviders }
       \cup { [on_push |-> FALSE], [provider |-> "gitlab_ci", cron_schedule |-> "0 6 * * 1"] }

TenantGenerateTests ==
    /\ nextTest <= MaxTenantTests
    /\ \E user \in Users, pk \in SharedProjectIds, data \in TenantData :
          \E replies \in [1 .. 1 -> TenantReplies] : generate_tests(user, pk, data, replies)
    /\ UNCHANGED << dbVars, last, clients, guiVars, deskVars >>
TenantRegenerate ==
    /\ nextTest <= MaxTenantTests
    /\ \E user \in Users, pk \in 1 .. MaxTenantTests, reply \in TenantReplies :
          regenerate(user, pk, reply)
    /\ UNCHANGED << dbVars, last, clients, guiVars, deskVars >>
TenantPartialUpdate ==
    /\ \E user \in Users, pk \in SharedProjectIds, p \in Opt(ProviderIds) :
          partial_update(user, pk, p)
    /\ UNCHANGED << dbVars, last, clients, guiVars, deskVars >>
RetrieveLlmProvider ==
    /\ \E user \in Users, pk \in ProviderIds : retrieve_llm_provider(user, pk)
    /\ UNCHANGED << dbVars, last, clients, guiVars, deskVars >>
RetrieveTestProject ==
    /\ \E user \in Users, pk \in SharedProjectIds : retrieve_test_project(user, pk)
    /\ UNCHANGED << dbVars, last, clients, guiVars, deskVars >>
GenerateCicd ==
    /\ \E user \in Users, pk \in SharedProjectIds, data \in CicdBodies :
          generate_cicd(user, pk, data)
    /\ UNCHANGED << dbVars, last, clients, guiVars, deskVars >>
TenantGenerateCicd ==
    /\ \E user \in Users, pk \in SharedProjectIds :
          generate_cicd(user, pk, [provider |-> "gitlab_ci"])
    /\ UNCHANGED << dbVars, last, clients, guiVars, deskVars >>

NextTenant ==
    \/ TenantGenerateTests
    \/ TenantRegenerate
    \/ TenantPartialUpdate
    \/ RetrieveLlmProvider
    \/ RetrieveTestProject
    \/ TenantGenerateCicd

SpecTenant == Init /\ [][NextTenant]_vars

\* SpecCicd: pipelines generated and read back
NextCicd ==
    \/ GenerateCicd
    \/ RetrieveTestProject

SpecCicd == Init /\ [][NextCicd]_vars

\* ------------------------------------------------------------------ calculator API
\* calculator/api_views.py over calculator/serializers.py: GET api/block-types/
\* and POST api/save-project/ (the caller is authenticated).

\* names and request bodies posted to save-project: blocks as the API
\* documents them, blocks under the serializer's own field names, blocks that
\* also name a project, and bodies with a part missing
ApiNames == {"", "Room A", "Room B"}
ApiBlocks ==
    { << >>,
      << [block_type_id |-> 1, length |-> 120, width |-> 96, x |-> 0, y |-> 0] >>,
      << [block_type |-> 1, length |-> 120, width |-> 96] >>,
      << [project |-> 1, block_type |-> 1, length |-> 120, width |-> 96] >> }
ApiBodies ==
    { [name |-> n, blocks |-> b] : n \in ApiNames, b \in ApiBlocks }
       \cup { [name |-> "Room A"], [blocks |-> << >>] }

\* BlockInstanceSerializer (fields = '__all__') validating one entry: project
\* and block_type are required primary keys of existing rows, length and
\* width are required, x and y are not; keys that are no field are ignored
block_is_valid(block, types, projs) ==
    /\ "project" \in DOMAIN block /\ block.project \in DOMAIN projs
    /\ "block_type" \in DOMAIN block /\ block.block_type \in DOMAIN types
    /\ "length" \in DOMAIN block
    /\ "width" \in DOMAIN block

\* ProjectSerializer.is_valid: name required and not blank, blocks required,
\* every entry valid
project_is_valid(data, types, projs) ==
    /\ "name" \in DOMAIN data /\ data.name # ""
    /\ "blocks" \in DOMAIN data
    /\ \A k \in 1 .. Len(data.blocks) : block_is_valid(data.blocks[k], types, projs)

\* save_project: POST api/save-project/.  ProjectSerializer.create inserts the
\* project and then calls BlockInstance.objects.create(project=project,
\* **block_data); block_data of a validated entry holds 'project' itself, so
\* the call raises TypeError before it inserts anything.
api_save_project(data) ==
    /\ Used < MaxRows
    /\ request' = Request(Owner, "save_project", 0, data)
    /\ UNCHANGED << blockTypes, nextType, instances, nextInstance >>
    /\ IF ~project_is_valid(data, blockTypes, projects)
       THEN /\ response' = Response("save_project", 0, 400, [errors |-> "field errors"])
            /\ UNCHANGED << projects, nextProject >>
       ELSE /\ projects' = projects @@ (nextProject :> ProjectRow(data.name))
            /\ nextProject' = nextProject + 1
            /\ response' = IF Len(data.blocks) = 0
                           THEN Response("save_project", 0, 200,
                                         [message |-> "Project saved", project_id |-> nextProject])
                           ELSE Response("save_project", 0, 500, [error |-> "TypeError"])

\* get_block_types: GET api/block-types/
api_get_block_types ==
    /\ request' = Request("anonymous", "get_block_types", 0, << >>)
    /\ response' = Response("get_block_types", 0, 200,
                            [k \in 1 .. Cardinality(DOMAIN blockTypes) |->
                               [id |-> SortedIds(DOMAIN blockTypes)[k]]])
    /\ UNCHANGED dbVars

ApiSaveProject ==
    /\ \E data \in ApiBodies : api_save_project(data)
    /\ UNCHANGED << last, clients, guiVars, deskVars >>
    /\ UNCHANGED << llmProviders, testProjects, pipelines, generatedTests, nextTest, calls >>
ApiGetBlockTypes ==
    /\ api_get_block_types
    /\ UNCHANGED << last, clients, guiVars, deskVars >>
    /\ UNCHANGED << llmProviders, testProjects, pipelines, generatedTests, nextTest, calls >>

NextApi ==
    \/ ApiSaveProject
    \/ ApiGetBlockTypes

SpecApi == Init /\ [][NextApi]_vars

\* ------------------------------------------------------------------ properties
\* A step of Spec is the gateway call named in last'; its target is last'.id.

\* the rows of one project in primary-key order
RowsOf(inst, project_id) ==
    [k \in 1 .. Cardinality(BlocksOf(inst, project_id)) |->
        inst[SortedIds(BlocksOf(inst, project_id))[k]]]

\* the rows a blocks_data list stands for
Expected(project_id, blocks_data) ==
    [k \in 1 .. Len(blocks_data) |-> InstanceRow(project_id, blocks_data[k])]

\* rows of `before` outside `gone` are still there, unchanged, and nothing is new
KeptExcept(before, after, gone) ==
    /\ DOMAIN after = DOMAIN before \ gone
    /\ \A i \in DOMAIN after : after[i] = before[i]

\* the update_project arguments that supply a block list
BlockEdits == { e \in ProjectEdits : ~IsNone(e[2]) }

\* the step is create_project(n, b)
IsCreate(n, b) == last'.added <= Len(b) /\ create_project(n, b)

\* the step is update_project(last'.id, e[1], e[2]) on a project that exists
IsUpdate(e) ==
    /\ last'.added <= Len(Val(e[2]))
    /\ last'.id \in DOMAIN projects
    /\ update_project(last'.id, e[1], e[2])

\* C1: a create_project call that ends in an error leaves the Project table
\* and the BlockInstance table exactly as they were before the call.
C1_NoPartialWrite ==
    [][(last'.op = "create_project" /\ last'.result # "ok")
          => \A n \in NameInputs, b \in BlockLists :
                IsCreate(n, b) => (projects' = projects /\ instances' = instances)]_vars

\* C2: after update_project(id, blocks=T) on an existing project with block
\* set S, the project's rows are exactly T when the call succeeded and the
\* BlockInstance table is exactly as before when it failed.
C2_UpdateAtomic ==
    [][last'.op = "update_project"
          => \A e \in BlockEdits :
                IsUpdate(e) => IF last'.result = "ok"
                               THEN RowsOf(instances', last'.id) = Expected(last'.id, Val(e[2]))
                               ELSE instances' = instances]_vars

\* C3: when two interleaved update_project calls on the same project, with
\* block lists T1 and T2, have both completed, the project's rows are exactly
\* T1 or exactly T2.
C3_LastWriteWins ==
    \A c \in Clients : \A d \in Clients \ {c} :
        ( /\ clients[c].pc = "done" /\ clients[c].result = "ok"
          /\ clients[d].pc = "done" /\ clients[d].result = "ok"
          /\ clients[c].project_id = clients[d].project_id
          /\ ~IsNone(clients[c].blocks_data) /\ ~IsNone(clients[d].blocks_data) )
        => LET p == clients[c].project_id
           IN \/ RowsOf(instances, p) = Expected(p, Val(clients[c].blocks_data))
              \/ RowsOf(instances, p) = Expected(p, Val(clients[d].blocks_data))

\* C4: the block replace of update_project is total: whenever
\* update_project(id, blocks=B2) runs on an existing project (whose rows an
\* earlier update with B1 may have written), no row the project had before
\* the call survives it, and when the call succeeds the project's rows are
\* exactly the entries of B2, Len(B2) of them.
C4_ReplaceIsTotal ==
    [][last'.op = "update_project"
          => \A e \in BlockEdits :
                IsUpdate(e) =>
                   /\ BlocksOf(instances', last'.id) \cap DOMAIN instances = {}
                   /\ last'.result = "ok" =>
                         /\ Cardinality(BlocksOf(instances', last'.id)) = Len(Val(e[2]))
                         /\ RowsOf(instances', last'.id) = Expected(last'.id, Val(e[2]))]_vars

C4_Witness ==
    /\ last.op = "update_project" /\ last.result = "ok"
    /\ last.removed >= 1 /\ last.added >= 1
    /\ Cardinality(BlocksOf(instances, last.id)) = last.added

\* C5: get_project on the id a successful create_project(name, B) returned
\* gives a project with that name and Len(B) blocks, the k-th of which
\* carries every key of the k-th entry of B with the same value.
C5_RoundTrip ==
    [][(last'.op = "create_project" /\ last'.result = "ok")
          => \A n \in NameInputs, b \in BlockLists :
                IsCreate(n, b) =>
                   LET got == get_project(blockTypes', projects', instances', last'.ret)
                   IN /\ got.name = n
                      /\ Len(got.blocks) = Len(b)
                      /\ \A k \in 1 .. Len(b) : \A key \in DOMAIN b[k] :
                            got.blocks[k][key] = b[k][key]]_vars

C5_Witness ==
    /\ last.op = "create_project" /\ last.result = "ok" /\ last.added = 2
    /\ Len(get_project(blockTypes, projects, instances, last.ret).blocks) = 2

\* C6: create_project(name, blocks) succeeds exactly when the name is
\* non-empty and every entry references a block type that exists.
C6_CreateValidates ==
    [][last'.op = "create_project"
          => \A n \in NameInputs, b \in BlockLists :
                IsCreate(n, b) =>
                   (last'.result = "ok" <=>
                      /\ n # ""
                      /\ \A k \in 1 .. Len(b) : b[k].block_type_id \in DOMAIN blockTypes)]_vars

\* C7: delete_block_type(t) on an existing block type removes t and every
\* BlockInstance referencing t, lowers the BlockInstance count by exactly the
\* number of rows that referenced t, and leaves every other row unchanged.
C7_BlockTypeCascade ==
    [][(last'.op = "delete_block_type" /\ last'.result = "ok")
          => LET t == last'.id
             IN /\ t \notin DOMAIN blockTypes'
                /\ UsesOf(instances', t) = {}
                /\ Cardinality(DOMAIN instances')
                      = Cardinality(DOMAIN instances) - Cardinality(UsesOf(instances, t))
                /\ KeptExcept(instances, instances', UsesOf(instances, t))]_vars

C7_Witness ==
    /\ last.op = "delete_block_type" /\ last.result = "ok"
    /\ last.removed >= 1
    /\ DOMAIN instances # {}

\* C8: delete_project(id) on an existing project removes the project and its
\* BlockInstances and changes no other Project, no BlockInstance of another
\* project and no BlockType.
C8_DeleteProjectFrame ==
    [][(last'.op = "delete_project" /\ last'.result = "ok")
          => LET p == last'.id
             IN /\ p \notin DOMAIN projects'
                /\ BlocksOf(instances', p) = {}
                /\ KeptExcept(projects, projects', {p})
                /\ KeptExcept(instances, instances', BlocksOf(instances, p))
                /\ blockTypes' = blockTypes]_vars

C8_Witness ==
    /\ last.op = "delete_project" /\ last.result = "ok"
    /\ last.removed >= 1
    /\ DOMAIN projects # {}
    /\ DOMAIN instances # {}

\* C9: in every state reached by gateway calls, successful or failing, every
\* BlockInstance row belongs to a Project that exists and references a
\* BlockType that exists.
C9_ReferentialIntegrity ==
    \A i \in DOMAIN instances :
        /\ instances[i].project \in DOMAIN projects
        /\ instances[i].block_type \in DOMAIN blockTypes

C9_Witness ==
    /\ last.result = "IntegrityError"
    /\ last.added >= 1
    /\ DOMAIN instances # {}

\* C10: no persisted BlockInstance has a length or a width that is zero or
\* negative.
C10_PositiveDimensions ==
    \A i \in DOMAIN instances : instances[i].length > 0 /\ instances[i].width > 0

\* C11: every create_block_type call stores a block type whose price per
\* square foot is greater than zero (a zero or negative price is rejected).
C11_PositivePrice ==
    [][last'.op = "create_block_type"
          => \A t \in DOMAIN blockTypes' \ DOMAIN blockTypes :
                blockTypes'[t].price_per_sqft > 0]_vars

\* C12: get_project, update_project, delete_project, update_block_type and
\* delete_block_type called with an id that has no row end with DoesNotExist,
\* and a call that ends with DoesNotExist leaves every table and every
\* primary-key counter as it was.
C12_NotFoundChangesNothing ==
    [][/\ ( /\ last'.op \in {"get_project", "update_project", "delete_project"}
            /\ last'.id \notin DOMAIN projects )
          => (last'.result = "DoesNotExist" /\ UNCHANGED dbVars)
       /\ ( /\ last'.op \in {"update_block_type", "delete_block_type"}
            /\ last'.id \notin DOMAIN blockTypes )
          => (last'.result = "DoesNotExist" /\ UNCHANGED dbVars)
       /\ last'.result = "DoesNotExist" => UNCHANGED dbVars]_vars

C12_Witness ==
    /\ last.op = "update_project" /\ last.result = "DoesNotExist"
    /\ last.id \notin DOMAIN projects
    /\ DOMAIN projects # {}
    /\ DOMAIN instances # {}

\* the point lies in the rectangle spanned from (x, y) by length along the x
\* axis and width along the y axis, borders included
InRect(block, px, py) ==
    /\ px \in block.x .. (block.x + block.length)
    /\ py \in block.y .. (block.y + block.width)

\* C13: for every block, area * 144 = length * width and
\* cost * 144 = length * width * rate; a 120 x 96 block at rate 50 has area 80
\* and cost 4000.
C13_CostFormula ==
    \A k \in 1 .. Len(items) :
        LET b == items[k]
        IN /\ area(b).n * 144 = b.length * b.width * area(b).d
           /\ cost(b).n * 144 = b.length * b.width * b.price_per_sqft * cost(b).d
           /\ (b.length = 120 /\ b.width = 96 /\ b.price_per_sqft = 50)
                 => (area(b) = Num(80) /\ cost(b) = Num(4000))

C13_Witness ==
    /\ Len(tab.blocks) = 1
    /\ items[tab.blocks[1]].length = 120 /\ items[tab.blocks[1]].width = 96
    /\ items[tab.blocks[1]].price_per_sqft = 50
    /\ tab.summary.area = Num(80) /\ tab.summary.cost = Num(4000)

\* length * width (* rate) added up over a block list, in 1/144 square feet
RECURSIVE SquareInches(_, _, _)
SquareInches(blocks, heap, priced) ==
    IF Len(blocks) = 0 THEN 0
    ELSE LET b == heap[Head(blocks)]
         IN b.length * b.width * (IF priced THEN b.price_per_sqft ELSE 1)
               + SquareInches(Tail(blocks), heap, priced)

\* the block list read in the order p
Reordered(blocks, p) == [k \in 1 .. Len(blocks) |-> blocks[p[k]]]

\* the two lists hold the same blocks, in whatever order
SameBlocks(a, b) ==
    /\ Len(a) = Len(b)
    /\ \E p \in Permutations(1 .. Len(a)) : Reordered(a, p) = b

\* C14: the cost summary and the canvas totals are the sums of the per-block
\* areas and costs of their block list, whatever the order of the list, and 0
\* for an empty list; for the same blocks the cost summary, the canvas total
\* and the projects panel give the same total.
C14_Aggregates ==
    /\ tab.summary.count = Len(tab.blocks)
    /\ tab.summary.area.n * 144 = SquareInches(tab.blocks, items, FALSE) * tab.summary.area.d
    /\ tab.summary.cost.n * 144 = SquareInches(tab.blocks, items, TRUE) * tab.summary.cost.d
    /\ LET total_area == get_total_area(canvas.blocks, items)
           total_cost == get_total_cost(canvas.blocks, items)
       IN /\ total_area.n * 144 = SquareInches(canvas.blocks, items, FALSE) * total_area.d
          /\ total_cost.n * 144 = SquareInches(canvas.blocks, items, TRUE) * total_cost.d
          /\ \A p \in Permutations(1 .. Len(canvas.blocks)) :
                /\ get_total_area(Reordered(canvas.blocks, p), items) = total_area
                /\ get_total_cost(Reordered(canvas.blocks, p), items) = total_cost
          /\ Len(canvas.blocks) = 0 => (total_area = Num(0) /\ total_cost = Num(0))
          /\ SameBlocks(tab.blocks, canvas.blocks)
                => /\ tab.summary.area = total_area
                   /\ tab.summary.cost = total_cost
                   /\ panel_total(canvas.blocks, items) = total_cost
    /\ Len(tab.blocks) = 0 => (tab.summary.area = Num(0) /\ tab.summary.cost = Num(0))

C14_Witness ==
    /\ Len(canvas.blocks) = 2 /\ tab.blocks = canvas.blocks
    /\ cost(items[canvas.blocks[1]]) # cost(items[canvas.blocks[2]])
    /\ cost(items[canvas.blocks[2]]).n > 0
    /\ tab.summary.cost = get_total_cost(canvas.blocks, items)
    /\ tab.summary.cost.d > 1

\* C15: for every block and every point, contains_point is true exactly when
\* x <= px <= x + length and y <= py <= y + width.
C15_HitTest ==
    \A k \in 1 .. Len(items) : \A pt \in PointInputs :
        contains_point(items[k], pt[1], pt[2]) <=> InRect(items[k], pt[1], pt[2])

C15_Witness ==
    /\ ui.op = "mousePressEvent" /\ ~IsNone(ui.ret)
    /\ LET b == items[Val(ui.ret)]
       IN /\ ui.x = b.x + b.length
          /\ b.y < ui.y /\ ui.y < b.y + b.width
          /\ b.length # b.width

\* C16: a mouse press at a point selects and returns the block that was added
\* last among the blocks containing the point; when no block contains it, it
\* returns None and the selection becomes None.
C16_LastAddedWins ==
    [][ui'.op = "mousePressEvent"
          => LET hits == { k \in 1 .. Len(canvas.blocks) :
                             InRect(items[canvas.blocks[k]], ui'.x, ui'.y) }
             IN IF hits = {}
                THEN IsNone(ui'.ret) /\ IsNone(canvas'.selected_block)
                ELSE /\ ui'.ret = Some(canvas.blocks[CHOOSE k \in hits : \A j \in hits : j <= k])
                     /\ canvas'.selected_block = ui'.ret]_vars

C16_Witness ==
    /\ ui.op = "mousePressEvent"
    /\ Len(canvas.blocks) = 2
    /\ ui.ret = Some(canvas.blocks[2])
    /\ canvas.selected_block = ui.ret
    /\ InRect(items[canvas.blocks[1]], ui.x, ui.y)

\* C17: of the signals one worker emits, at most one is finished or error,
\* nothing is emitted after it, and the slots run in the order of emission.
C17_OneTerminalEvent ==
    /\ Cardinality({ k \in 1 .. Len(emitted) : emitted[k].sig \in {"finished", "error"} }) <= 1
    /\ \A k \in 1 .. Len(emitted) :
          emitted[k].sig \in {"finished", "error"} => k = Len(emitted)
    /\ Len(signals) <= Len(emitted)
    /\ signals = SubSeq(emitted, Len(emitted) - Len(signals) + 1, Len(emitted))

C17_Witness ==
    /\ worker.pc = "done" /\ Len(signals) = 0
    /\ Len(emitted) = 3
    /\ emitted[1].sig = "progress" /\ emitted[2].sig = "progress"
    /\ emitted[3].sig = "error"
    /\ desk.message = "Error"

\* the generation of a scenario succeeds when the provider returns a
\* completion whose code can be extracted and stored
Succeeds(reply) == reply = Reply(Some("code"))

\* the entries of a sequence whose index is in keep, in order
RECURSIVE Pick(_, _, _)
Pick(seq, keep, k) ==
    IF k > Len(seq) THEN << >>
    ELSE (IF k \in keep THEN << seq[k] >> ELSE << >>) \o Pick(seq, keep, k + 1)

\* C18: a generate_tests request with n scenarios that gets past validation
\* calls the provider for every scenario, in order, and answers with total = n,
\* successful + failed = n, generated_tests = the scenarios whose generation
\* succeeded and errors = the scenarios whose generation failed, each in
\* scenario order.
C18_PartialFailure ==
    (request.op = "generate_tests" /\ response.status = 200)
       => LET scenarios == request.data.test_scenarios
              n == Len(scenarios)
              good == { k \in 1 .. n : Succeeds(calls[k].reply) }
              b == response.body
          IN /\ Len(calls) = n
             /\ \A k \in 1 .. n : calls[k].scenario = scenarios[k]
             /\ b.total = n
             /\ b.successful + b.failed = n
             /\ b.successful = Cardinality(good)
             /\ [k \in 1 .. Len(b.generated_tests) |-> b.generated_tests[k].test_description]
                   = Pick(scenarios, good, 1)
             /\ \A k \in 1 .. Len(b.generated_tests) : b.generated_tests[k].status = "completed"
             /\ [k \in 1 .. Len(b.errors) |-> b.errors[k].scenario]
                   = Pick(scenarios, (1 .. n) \ good, 1)

C18_Witness ==
    /\ request.op = "generate_tests" /\ response.status = 200
    /\ Len(request.data.test_scenarios) = 3
    /\ Succeeds(calls[1].reply) /\ "error" \in DOMAIN calls[2].reply /\ Succeeds(calls[3].reply)
    /\ response.body.successful = 2 /\ response.body.failed = 1
    /\ request.data.test_scenarios[1] # request.data.test_scenarios[3]

\* C19: a generate_tests or regenerate request on a test project without an
\* LLM provider is answered 400 with an error, whatever its body, makes no
\* provider call and leaves the GeneratedTest table as it was.
C19_MissingProvider ==
    [][( \/ /\ request'.op = "generate_tests"
            /\ request'.pk \in DOMAIN testProjects
            /\ IsNone(testProjects[request'.pk].llm_provider)
         \/ /\ request'.op = "regenerate"
            /\ request'.pk \in DOMAIN generatedTests
            /\ IsNone(testProjects[generatedTests[request'.pk].test_project].llm_provider) )
          => /\ response'.status = 400
             /\ "error" \in DOMAIN response'.body
             /\ calls' = << >>
             /\ UNCHANGED << generatedTests, nextTest, testProjects >>]_vars

C19_Witness ==
    /\ request.op = "regenerate" /\ response.status = 400
    /\ request.pk \in DOMAIN generatedTests
    /\ IsNone(testProjects[generatedTests[request.pk].test_project].llm_provider)
    /\ calls = << >>

\* C20: serving a request, the provider is called once per generate_test
\* call, and a record whose generation failed is left with status 'failed'
\* and a non-empty error message.
C20_NoRetryFailedRecorded ==
    request.op \in {"generate_tests", "regenerate"}
       => \A k \in 1 .. Len(calls) :
             LET test == generatedTests[nextTest - Len(calls) + k - 1]
             IN /\ test.test_description = calls[k].scenario
                /\ ~Succeeds(calls[k].reply)
                      => /\ test.status = "failed"
                         /\ ~IsNone(test.error_message)
                         /\ Len(Val(test.error_message)) > 0

\* the step is update_project(last'.id, e[1], e[2]) on a project that exists,
\* with or without a block list
IsEdit(e) ==
    /\ last'.id \in DOMAIN projects
    /\ update_project(last'.id, e[1], e[2])

\* C24: update_project on an existing project changes only what is supplied:
\* without blocks the BlockInstance table is unchanged and the name becomes the
\* one given; without a name the name is unchanged; with the empty block list
\* the project ends with no BlockInstance; and in every case the other
\* Projects, the BlockInstances of other projects and the BlockTypes are
\* unchanged.
C24_UpdateFrame ==
    [][last'.op = "update_project"
          => \A e \in ProjectEdits :
                IsEdit(e) =>
                   LET p == last'.id
                   IN /\ IsNone(e[2]) => /\ instances' = instances
                                         /\ projects'[p].name = Val(e[1])
                      /\ IsNone(e[1]) => projects'[p].name = projects[p].name
                      /\ (~IsNone(e[2]) /\ Len(Val(e[2])) = 0)
                            => BlocksOf(instances', p) = {}
                      /\ DOMAIN projects' = DOMAIN projects
                      /\ \A q \in DOMAIN projects \ {p} : projects'[q] = projects[q]
                      /\ \A i \in DOMAIN instances \ BlocksOf(instances, p) :
                            i \in DOMAIN instances' /\ instances'[i] = instances[i]
                      /\ \A i \in DOMAIN instances' \ DOMAIN instances :
                            instances'[i].project = p
                      /\ blockTypes' = blockTypes]_vars

\* update_project(id, blocks=[]) emptied a project while another project
\* kept its rows
C24_Witness ==
    /\ last.op = "update_project" /\ last.result = "ok"
    /\ last.removed >= 1 /\ last.added = 0
    /\ BlocksOf(instances, last.id) = {}
    /\ \E q \in DOMAIN projects \ {last.id} : BlocksOf(instances, q) # {}

\* the blocks_data list to_dict gives for a block list
Dicts(blocks, heap) == [k \in 1 .. Len(blocks) |-> to_dict(heap[blocks[k]])]

\* C25: the tab's block list and the canvas's block list are the same blocks
\* in the same order; the block count and the totals shown are those of the
\* blocks on the canvas; and the rows a save_project wrote are the blocks on
\* the canvas.
C25_ListsInStep ==
    /\ tab.blocks = canvas.blocks
    /\ tab.summary.count = Len(canvas.blocks)
    /\ tab.summary.area = get_total_area(canvas.blocks, items)
    /\ tab.summary.cost = get_total_cost(canvas.blocks, items)
    /\ (ui.op = "save_project" /\ last.result = "ok")
          => RowsOf(instances, last.ret) = Expected(last.ret, Dicts(canvas.blocks, items))

\* C26: the selected block of the canvas is None or one of the blocks of the
\* canvas.
C26_SelectionNotStale ==
    IsNone(canvas.selected_block) \/ InList(canvas.blocks, Val(canvas.selected_block))

\* the second of two blocks has been dragged and is still selected
C26_Witness ==
    /\ ui.op = "mouseMoveEvent"
    /\ Len(canvas.blocks) = 2
    /\ canvas.is_dragging
    /\ canvas.selected_block = Some(canvas.blocks[2])
    /\ items[canvas.blocks[2]].x = ui.x - canvas.drag_offset_x
    /\ items[canvas.blocks[2]].x # items[canvas.blocks[1]].x + 20

\* C27: a mouse press, move or release changes no block's length, width or
\* rate and so no total; a move changes something only while is_dragging is
\* set and a block is selected, and then only that block's x and y, to the
\* pointer position less the offset taken at the press.
C27_DragMovesOneBlock ==
    [][ui'.op \in {"mousePressEvent", "mouseMoveEvent", "mouseReleaseEvent"}
          => /\ Len(items') = Len(items)
             /\ \A k \in 1 .. Len(items) :
                   /\ items'[k].length = items[k].length
                   /\ items'[k].width = items[k].width
                   /\ items'[k].price_per_sqft = items[k].price_per_sqft
                   /\ IF /\ ui'.op = "mouseMoveEvent"
                         /\ canvas.is_dragging
                         /\ canvas.selected_block = Some(k)
                      THEN /\ items'[k].x = ui'.x - canvas.drag_offset_x
                           /\ items'[k].y = ui'.y - canvas.drag_offset_y
                      ELSE /\ items'[k].x = items[k].x
                           /\ items'[k].y = items[k].y
             /\ (ui'.op = "mousePressEvent" /\ ~IsNone(ui'.ret))
                   => /\ canvas'.drag_offset_x = ui'.x - items[Val(ui'.ret)].x
                      /\ canvas'.drag_offset_y = ui'.y - items[Val(ui'.ret)].y
             /\ tab'.summary = tab.summary
             /\ get_total_area(canvas'.blocks, items') = get_total_area(canvas.blocks, items)
             /\ get_total_cost(canvas'.blocks, items') = get_total_cost(canvas.blocks, items)]_vars

\* a worker has been started and its last signal has not been handled yet
InFlight == worker.pc # "none" /\ (worker.pc # "done" \/ Len(signals) > 0)

\* C28: while a generation is in flight the generate button is disabled and
\* the progress bar visible, and a worker is started only when none is in
\* flight; once run has returned, on the success and on the failure path, the
\* button is eventually enabled again and the progress bar hidden.
C28_OneGenerationInFlight ==
    /\ [](InFlight => (~desk.generate_btn /\ desk.progress_bar))
    /\ [][(worker' # worker /\ worker'.pc = "analyze") => ~InFlight]_vars
    /\ (worker.pc = "done") ~> (desk.generate_btn /\ ~desk.progress_bar)
    /\ (InFlight /\ worker.pc = "except") ~> (desk.generate_btn /\ ~desk.progress_bar)

\* a second generation is in flight after the first one ended in success
C28_Witness ==
    /\ InFlight /\ worker.pc = "generate"
    /\ desk.message = "" /\ desk.test_output # ""
    /\ ~desk.generate_btn /\ desk.progress_bar

\* the ids of the records a request's generate_test calls returned
Returned(resp) ==
    IF resp.op = "generate_tests"
    THEN { resp.body.generated_tests[k].id : k \in 1 .. Len(resp.body.generated_tests) }
    ELSE IF resp.status = 200 THEN { resp.body.id } ELSE {}

\* C29: every record a generate_tests or regenerate request created is
\* 'completed' or 'failed' when the request has been answered, 'completed'
\* exactly when generate_test returned it and 'failed' exactly when
\* generate_test raised; the records that existed before the request,
\* the regenerated one among them, are unchanged.
C29_StatusLifecycle ==
    [][(request'.op \in {"generate_tests", "regenerate"} /\ response'.status \in {200, 500})
          => /\ \A id \in DOMAIN generatedTests : generatedTests'[id] = generatedTests[id]
             /\ \A id \in DOMAIN generatedTests' \ DOMAIN generatedTests :
                   /\ generatedTests'[id].status \in {"completed", "failed"}
                   /\ generatedTests'[id].status = "completed" <=> id \in Returned(response')
                   /\ generatedTests'[id].status = "failed" <=> id \notin Returned(response')]_vars

\* a save-project body as the API documents it: a non-empty name and blocks
\* {block_type_id, length, width, x, y} of block types that exist
Documented(data, types) ==
    /\ "name" \in DOMAIN data /\ data.name # ""
    /\ "blocks" \in DOMAIN data
    /\ \A k \in 1 .. Len(data.blocks) :
          /\ DOMAIN data.blocks[k] = {"block_type_id", "length", "width", "x", "y"}
          /\ data.blocks[k].block_type_id \in DOMAIN types

\* C22: a save-project request with a documented body creates one Project
\* and one BlockInstance per entry, each of the new project, and returns the
\* project's id; any other body is answered 400 and persists nothing.
C22_SaveProject ==
    [][request'.op = "save_project"
          => IF Documented(request'.data, blockTypes)
             THEN /\ response'.status = 200
                  /\ DOMAIN projects' \ DOMAIN projects = { response'.body.project_id }
                  /\ RowsOf(instances', response'.body.project_id)
                        = Expected(response'.body.project_id, request'.data.blocks)
                  /\ \A i \in DOMAIN instances : instances'[i] = instances[i]
             ELSE /\ response'.status = 400
                  /\ projects' = projects
                  /\ instances' = instances]_vars

\* ---- API keys ----

\* the text holds the piece
Contains(text, piece) == \E k \in 1 .. Len(text) : text[k] = piece

\* the serialized GeneratedTest shows the key in its code or its error text
TestShows(test, k) ==
    \/ test.test_code = k
    \/ ~IsNone(test.error_message) /\ Contains(Val(test.error_message), k)

\* the serialized test project shows the key
ProjectShows(body, k) ==
    \/ /\ ~IsNone(body.llm_provider_details)
       /\ \/ "api_key" \in DOMAIN Val(body.llm_provider_details)
          \/ Val(body.llm_provider_details).api_endpoint = k
    \/ \E t \in body.generated_tests : TestShows(t, k)

\* the body of the response shows the key
BodyShows(resp, k) ==
    IF resp.op = "generate_tests" /\ resp.status = 200
    THEN \/ \E i \in 1 .. Len(resp.body.errors) : Contains(resp.body.errors[i].error, k)
         \/ \E i \in 1 .. Len(resp.body.generated_tests) :
               TestShows(resp.body.generated_tests[i], k)
    ELSE IF resp.op = "regenerate" /\ resp.status = 200 THEN TestShows(resp.body, k)
    ELSE IF resp.op = "regenerate" /\ resp.status = 500 THEN Contains(resp.body.error, k)
    ELSE IF resp.op = "retrieve_llm_provider" /\ resp.status = 200
    THEN "api_key" \in DOMAIN resp.body \/ resp.body.api_endpoint = k
    ELSE IF resp.op \in {"retrieve_test_project", "partial_update"} /\ resp.status = 200
    THEN ProjectShows(resp.body, k)
    ELSE FALSE

\* C21: LLM API keys are write-only: the api_key of a provider never appears
\* in a response body (llm-provider reads, test-project reads, generate_tests
\* and regenerate responses) nor in a GeneratedTest record, the recorded error
\* text included.
C21_KeysWriteOnly ==
    \A p \in DOMAIN llmProviders :
        /\ ~BodyShows(response, llmProviders[p].api_key)
        /\ \A id \in DOMAIN generatedTests :
              ~TestShows(generatedTests[id], llmProviders[p].api_key)

\* ---- CI/CD pipelines ----

\* the file the pipeline of a provider is written to
FileOf(provider) ==
    IF provider = "github_actions" THEN ".github/workflows/tests.yml" ELSE ".gitlab-ci.yml"

\* C23: generate_cicd accepts only github_actions and gitlab_ci: any other
\* provider is answered 400 and the stored pipelines stay as they were; a call
\* that does not succeed and every other request change no pipeline; after
\* every call a test project has at most one CICDPipeline, and after a
\* successful call the pipeline of the project has the provider, file_path and
\* config_content of that call, the pipelines of the other projects unchanged.
C23_GenerateCicd ==
    [][ IF request'.op = "generate_cicd"
        THEN LET pk == request'.pk
                 provider == Get(request'.data, "provider", "github_actions")
             IN /\ (pk \in get_queryset(request'.user)
                      /\ provider \notin {"github_actions", "gitlab_ci"})
                     => response'.status = 400
                /\ response'.status # 200 => pipelines' = pipelines
                /\ \A q \in DOMAIN testProjects :
                      Cardinality(PipelinesOf(pipelines', q)) <= 1
                /\ response'.status = 200 =>
                      /\ provider \in {"github_actions", "gitlab_ci"}
                      /\ \E i \in DOMAIN pipelines' :
                            /\ PipelinesOf(pipelines', pk) = {i}
                            /\ pipelines'[i].provider = provider
                            /\ pipelines'[i].file_path = FileOf(provider)
                            /\ pipelines'[i].config_content
                                   = response'.body.pipeline.config_content
                            /\ response'.body.pipeline.provider = provider
                            /\ response'.body.pipeline.file_path = FileOf(provider)
                            /\ pipelines'[i].config_content[1] = provider
                      /\ \A q \in DOMAIN testProjects \ {pk} :
                            /\ PipelinesOf(pipelines', q) = PipelinesOf(pipelines, q)
                            /\ \A j \in PipelinesOf(pipelines, q) :
                                  pipelines'[j] = pipelines[j]
        ELSE pipelines' = pipelines ]_vars

\* a successful call replaced the pipeline the project already had by a
\* gitlab_ci one that carries the schedule of the call
C23_Witness ==
    /\ response.op = "generate_cicd" /\ response.status = 200
    /\ response.body.created = FALSE
    /\ response.body.pipeline.provider = "gitlab_ci"
    /\ \E i \in DOMAIN pipelines :
          /\ PipelinesOf(pipelines, response.pk) = {i}
          /\ pipelines[i].provider = "gitlab_ci"
          /\ pipelines[i].file_path = ".gitlab-ci.yml"
          /\ pipelines[i].cron_schedule = "0 6 * * 1"

\* ---- users ----

\* the requests addressed to a test project
ProjectOps == {"retrieve_test_project", "generate_tests", "generate_cicd", "partial_update"}

\* the step changed no row of the test-generation tables and called no provider
NothingWritten ==
    /\ UNCHANGED << llmProviders, testProjects, pipelines, generatedTests, nextTest >>
    /\ calls' = << >>

\* C30: per-user isolation: a request to read, patch, generate tests for or
\* generate a pipeline for a test project another user created, or to
\* regenerate a test of such a project, is answered 404 and changes no state;
\* and a test project never uses an LLMProvider created by another user than
\* its own creator.
C30_Isolation ==
    [][ /\ (/\ request'.op \in ProjectOps
            /\ request'.pk \in DOMAIN testProjects
            /\ testProjects[request'.pk].created_by # request'.user)
              => (response'.status = 404 /\ NothingWritten)
        /\ (/\ request'.op = "regenerate"
            /\ request'.pk \in DOMAIN generatedTests
            /\ testProjects[generatedTests[request'.pk].test_project].created_by
                  # request'.user)
              => (response'.status = 404 /\ NothingWritten)
        /\ \A pk \in DOMAIN testProjects' :
              \/ IsNone(testProjects'[pk].llm_provider)
              \/ llmProviders'[Val(testProjects'[pk].llm_provider)].created_by
                    = testProjects'[pk].created_by ]_vars

====
